---- MODULE Spec2Model ----
(***************************************************************************)
(* Model of the pfaff-terminal back ends.                                  *)
(*                                                                         *)
(* The repository holds several iterations of the same Express server.     *)
(* Three of them are modelled here, selected by the variable `server`:     *)
(*   "A"  src/server.js lines 1-537     (session gate, Tiingo proxy,       *)
(*                                       fixed DEMO_* fallback tables)     *)
(*   "B"  src/server.js lines 539-1252  (gate bypassed, fetch-then-        *)
(*                                       fallback with generated data)     *)
(*   "C"  src/unnamed/part_003          (session gate, login limiter,      *)
(*                                       mock data only)                   *)
(*                                                                         *)
(* Strings that the code inspects character by character (user names,      *)
(* passwords, environment values) are sequences of one-character strings.  *)
(* Money is in cents, percentages in hundredths of a percent.              *)
(***************************************************************************)
EXTENDS Integers, Sequences, FiniteSets, TLC

VARIABLES
    server,     \* which of the server files is running
    env,        \* process.env: ADMIN_USERNAME, ADMIN_PASSWORD_HASH, TIINGO_API_KEY
    sessions,   \* express-session store, one session per client cookie
    loginHits,  \* express-rate-limit hit counter of loginLimiter, per address
    marketCache,\* servers B, C and D: where the cached data came from, who wrote it and when
    apiHits,    \* servers B and C: has the address used up apiLimiter's allowance
    req,        \* the most recent request
    resp,       \* the response to it
    lastAuth,   \* history: the most recent login/logout event of each client
    attempts,   \* history: login requests of each address in the current window
    inflight,   \* servers B and D: the handlers that wait for the provider
    now,        \* servers B and D: the clock that stamps lastUpdated
    watchlist,  \* dashboard page: watchlistData, realtimeUpdateCount and their history
    chart,      \* dashboard page: the chart shown and the chart loads in flight
    loginPage,  \* login page: the form, its login requests and their outcome
    browser     \* a browser that follows the redirects of server A

vars == <<server, env, sessions, loginHits, marketCache, apiHits, req, resp,
         lastAuth, attempts, inflight, now, watchlist, chart, loginPage, browser>>

config == <<server, env>>

\* The pages in the browser.
pages == <<watchlist, chart, loginPage, browser>>

\* What an action that handles one request from start to end leaves alone:
\* the handlers in flight, the clock and the pages.
elsewhere == <<inflight, now, pages>>

\* The same for a request that a browser may have sent.
besideBrowser == <<inflight, now, watchlist, chart, loginPage>>

\* What an action of a page leaves alone: the server.
backend == <<server, env, sessions, loginHits, marketCache, apiHits, req, resp,
            lastAuth, attempts, inflight, now>>
apiState == <<marketCache, apiHits>>
history == <<lastAuth, attempts>>

----------------------------------------------------------------------------
(* Inputs *)

Servers == {"A", "B", "C"}

\* Server D, src/unnamed/part_001 lines 1-970: server B's routes behind the
\* same bypass, and a scheduled update of the cache.
CachingServers == {"B", "D"}

\* The handlers that may be in flight together: two requests and the
\* scheduled update.
Requests == {"r1", "r2"}
Tasks    == Requests \cup {"cron"}
Idle     == [pc |-> "idle", route |-> "none", overlapped |-> FALSE]

\* The clock is not moved beyond MaxNow.
MaxNow == 4
Clients == {"c1", "c2"}
Addrs   == {"ip1", "ip2"}

\* JavaScript's undefined (an unset environment variable, a missing body field).
undefined == <<"<undefined>">>

\* 'admin', the default of ADMIN_USERNAME.
admin == <<"a", "d", "m", "i", "n">>

\* Values ADMIN_USERNAME may have in the environment.
UsernameEnvs == {undefined, <<"a", "<", "b">>}

\* Values a client may send as username.
UsernameInputs ==
    {undefined, admin, <<" ", "a", "d", "m", "i", "n">>, <<"a", "<", "b">>}

\* The password the administrator chose, and what clients may send.
secret == <<"s", "3", "c">>
PasswordInputs == {<<>>, secret, <<"b", "a", "d">>}

\* bcrypt: a hash is modelled by its salt prefix followed by the password it hashes.
bcryptHash(pw) == <<"$2a$10$">> \o pw
bcryptCompare(pw, hash) == hash = bcryptHash(pw)

HashEnvs  == {undefined, bcryptHash(secret)}

\* Values NODE_ENV may have in the environment.
production  == <<"production">>
development == <<"development">>
NodeEnvs    == {undefined, production, development}

\* The placeholder that servers B and C take for an unset token, and a token
\* the provider accepts.
placeholder == <<"your-tiingo-api-key">>
key         == <<"k", "e", "y">>
TokenEnvs   == {undefined, placeholder, key}

----------------------------------------------------------------------------
(* String helpers *)

IsSpace(ch) == ch \in {" ", "\t"}

RECURSIVE trimStart(_)
trimStart(s) ==
    IF s # <<>> /\ IsSpace(Head(s)) THEN trimStart(Tail(s)) ELSE s

RECURSIVE trimEnd(_)
trimEnd(s) ==
    IF s # <<>> /\ IsSpace(s[Len(s)]) THEN trimEnd(SubSeq(s, 1, Len(s) - 1)) ELSE s

\* String.prototype.trim
trim(s) == trimEnd(trimStart(s))

RECURSIVE stripChars(_, _)
stripChars(s, bad) ==
    IF s = <<>> THEN <<>>
    ELSE IF Head(s) \in bad THEN stripChars(Tail(s), bad)
         ELSE <<Head(s)>> \o stripChars(Tail(s), bad)

\* (v ?? '').toString().trim().replace(/[\r\n"]/g, '')
clean(v) ==
    stripChars(trim(IF v = undefined THEN <<>> ELSE v), {"\r", "\n", "\""})

\* validator.js escape(): & < > " ' / \ ` become HTML entities.
escapeChar(ch) ==
    CASE ch = "&"  -> <<"&", "a", "m", "p", ";">>
      [] ch = "<"  -> <<"&", "l", "t", ";">>
      [] ch = ">"  -> <<"&", "g", "t", ";">>
      [] ch = "\"" -> <<"&", "q", "u", "o", "t", ";">>
      [] ch = "'"  -> <<"&", "#", "x", "2", "7", ";">>
      [] ch = "/"  -> <<"&", "#", "x", "2", "F", ";">>
      [] OTHER     -> <<ch>>

RECURSIVE escape(_)
escape(s) == IF s = <<>> THEN <<>> ELSE escapeChar(Head(s)) \o escape(Tail(s))

\* JavaScript's  a || b  on strings: b when a is undefined or ''.
OrElse(a, b) == IF a = undefined \/ a = <<>> THEN b ELSE a

\* !x for a string or undefined.
Falsy(x) == x = undefined \/ x = <<>>

----------------------------------------------------------------------------
(* Configuration read from the environment at start-up *)

A_ADMIN_USERNAME      == OrElse(clean(env.ADMIN_USERNAME), admin)
A_ADMIN_PASSWORD_HASH == clean(env.ADMIN_PASSWORD_HASH)
A_TIINGO_API_KEY      == clean(env.TIINGO_API_KEY)
A_NODE_ENV            == OrElse(clean(env.NODE_ENV), development)

C_ADMIN_USERNAME      == OrElse(env.ADMIN_USERNAME, admin)
C_ADMIN_PASSWORD_HASH == env.ADMIN_PASSWORD_HASH

\* The user name an administrator of the running server is configured with.
ADMIN_USERNAME == IF server = "A" THEN A_ADMIN_USERNAME ELSE C_ADMIN_USERNAME

----------------------------------------------------------------------------
(* Sessions, requests and responses *)

\* A session that was never written to (saveUninitialized: false) or was
\* destroyed.  `age` is the number of hours since the session's cookie was set.
EmptySession == [authenticated |-> FALSE, username |-> undefined, age |-> 0]

\* A request: its route, the client (cookie) and address it comes from,
\* whether the client's session is authenticated when it arrives, and the
\* facts about it and about what the provider answers while it is handled.
Request(route, c, ip, facts) ==
    [route |-> route, client |-> c, ip |-> ip, facts |-> facts,
     authenticated |-> sessions[c].authenticated]

None == [none |-> TRUE]

\* A response: the middleware or handler that sent it (by), its status and
\* body, the number of upstream GETs the request issued before it (calls) and
\* where the data values of the body were taken from (origin: "upstream",
\* "synthetic", or "none" for a body without data values).  `sent` is the
\* query of the upstream GET of a history request, None elsewhere.
Response(by, status, body, calls, origin) ==
    [by |-> by, status |-> status, body |-> body, calls |-> calls, origin |-> origin,
     sent |-> None]

\* A response sent by a route handler that called no upstream and sends no data.
Answer(status, body) == Response("handler", status, body, 0, "none")

NoRequest  ==
    [route |-> "none", client |-> "none", ip |-> "none", facts |-> None,
     authenticated |-> FALSE]
NoResponse == Response("none", 0, None, 0, "none")

\* History values of lastAuth.
NoEvent == [event |-> "none", raw |-> FALSE, sanitized |-> FALSE, limited |-> FALSE]
Event(e) == [NoEvent EXCEPT !.event = e]

----------------------------------------------------------------------------
(* The dashboard page: src/unnamed/part_000, class FinancialDashboard of    *)
(* lines 855-1850.  Amounts are in cents.                                  *)

\* The constructor: no watchlist, no update; AAPL over one month is current
\* and no chart is shown.  `loaded` and `last` are history: the watchlist as
\* it was rendered and the price of the last update that each entry took.
NewWatchlist ==
    [data |-> << >>, realtimeUpdateCount |-> 0, loaded |-> << >>, last |-> << >>,
     updates |-> 0]

NoChart == [symbol |-> "none", period |-> "none"]

NewChart ==
    [currentSymbol |-> "AAPL", currentPeriod |-> "1M", shown |-> NoChart,
     symbolInput |-> "", loads |-> {}, searches |-> {}, issued |-> 0]

(* The login page: src/unnamed/part_000 lines 1-179.                       *)

Enabled  == [button |-> FALSE, username |-> FALSE, password |-> FALSE]
Disabled == [button |-> TRUE, username |-> TRUE, password |-> TRUE]

\* The page as loaded: empty fields, nothing disabled, no request sent.
\* `sent` counts the login requests and `outcome` is how the last one ended.
NewLoginPage ==
    [username |-> <<>>, password |-> <<>>, disabled |-> Enabled, inflight |-> 0,
     redirecting |-> FALSE, location |-> "/auth/login", sent |-> 0, outcome |-> "none"]

\* A browser that has sent nothing.  `request` is the request it sends
\* next, `hops` the redirects it has followed since the request it started
\* from (`start`, sent with a session that `wasAuthenticated`), and `landed`
\* the page of the response that was no redirect.
NewBrowser ==
    [client |-> "none", start |-> "none", wasAuthenticated |-> FALSE,
     request |-> "none", hops |-> 0, landed |-> "none"]

\* The state of one of `servers` that has started in one of `modes`.
Start(servers, modes) ==
    /\ server \in servers
    /\ env \in [ADMIN_USERNAME : UsernameEnvs,
                ADMIN_PASSWORD_HASH : HashEnvs,
                TIINGO_API_KEY : TokenEnvs,
                NODE_ENV : modes]
    /\ sessions = [c \in Clients |-> EmptySession]
    /\ loginHits = [a \in Addrs |-> 0]
    /\ marketCache = [stocks |-> "empty", etfs |-> "empty", crypto |-> "empty",
                      news |-> "empty", lastUpdated |-> 0,
                      writer |-> [stocks |-> "none", etfs |-> "none", crypto |-> "none"]]
    /\ apiHits = [a \in Addrs |-> "below"]
    /\ req = NoRequest
    /\ resp = NoResponse
    /\ lastAuth = [c \in Clients |-> NoEvent]
    /\ attempts = [a \in Addrs |-> 0]
    /\ inflight = [t \in Tasks |-> Idle]
    /\ now = 0
    /\ watchlist = NewWatchlist
    /\ chart = NewChart
    /\ loginPage = NewLoginPage
    /\ browser = NewBrowser

Boot(modes) == Start(Servers, modes)

\* Only error responses depend on the mode: it is production where they are
\* not looked at.
Init == Boot({production})

----------------------------------------------------------------------------
(* Program constants *)

\* loginLimiter: max attempts per window.
LOGIN_MAX == 5

----------------------------------------------------------------------------
(* History of login/logout events, used only to state properties.          *)
(* A login request is recorded in lastAuth when its password verifies      *)
(* against the configured hash and its user name is the configured one,    *)
(* either as sent (raw) or after the server's own input sanitization       *)
(* (sanitized). `limited` tells that the request was at least the sixth    *)
(* of its address in the limiter's window of a server that mounts one;     *)
(* `attempt` is the request's number in that window (6 for any later one). *)

PasswordVerifies(password) ==
    /\ env.ADMIN_PASSWORD_HASH # undefined
    /\ password # undefined
    /\ bcryptCompare(password, env.ADMIN_PASSWORD_HASH)

Sanitize(username) ==
    IF server = "A" THEN clean(username)
    ELSE escape(trim(IF username = undefined THEN <<>> ELSE username))

LoginEvent(ip, username) ==
    [event     |-> "login",
     raw       |-> username = ADMIN_USERNAME,
     sanitized |-> Sanitize(username) = ADMIN_USERNAME,
     limited   |-> server = "C" /\ attempts[ip] >= LOGIN_MAX]

\* Counted up to the first value above the limiter's maximum.
Count(n) == IF n > LOGIN_MAX THEN n ELSE n + 1

LoginRequest(c, ip, username, password) ==
    /\ req' = Request("login", c, ip,
                      [usernameOk |-> username = ADMIN_USERNAME,
                       passwordOk |-> PasswordVerifies(password),
                       missing    |-> username \in {undefined, <<>>}
                                       \/ password \in {undefined, <<>>},
                       attempt    |-> Count(attempts[ip])])
    /\ attempts' = [attempts EXCEPT ![ip] = Count(@)]
    /\ lastAuth' =
        IF PasswordVerifies(password)
           /\ (username = ADMIN_USERNAME \/ Sanitize(username) = ADMIN_USERNAME)
        THEN [lastAuth EXCEPT ![c] = LoginEvent(ip, username)]
        ELSE lastAuth

LogoutRequest(c) ==
    /\ req' = Request("logout", c, "any", None)
    /\ lastAuth' = [lastAuth EXCEPT ![c] = Event("logout")]
    /\ UNCHANGED attempts

StatusRequest(c) ==
    /\ req' = Request("status", c, "any", None)
    /\ UNCHANGED history

----------------------------------------------------------------------------
(* Server A: src/server.js lines 1-537 *)

\* requireAuth; `path` is req.path as the middleware sees it, a sequence of
\* path segments (what follows the mount path when mounted with app.use).
\* req.path.startsWith('/api') is taken as: the first segment is "api".
A_requireAuth(c, path) ==
    IF sessions[c].authenticated THEN "next"
    ELSE IF path # <<>> /\ Head(path) = "api" THEN "401"
    ELSE "redirect"

\* POST /auth/login without the check of lines 122-124: a server that has no
\* hash compares against nothing, and lets the right user name in.
A_login_unconfigured(c, ip, username, password) ==
    /\ server = "A"
    /\ LoginRequest(c, ip, username, password)
    /\ IF clean(username) # A_ADMIN_USERNAME
       THEN /\ resp' = Answer(401, [success |-> FALSE, error |-> "Invalid credentials."])
            /\ UNCHANGED sessions
       ELSE IF ~Falsy(A_ADMIN_PASSWORD_HASH)
               /\ ~bcryptCompare(OrElse(password, <<>>), A_ADMIN_PASSWORD_HASH)
       THEN /\ resp' = Answer(401, [success |-> FALSE, error |-> "Invalid credentials."])
            /\ UNCHANGED sessions
       ELSE /\ sessions' = [sessions EXCEPT ![c] =
                               [authenticated |-> TRUE, username |-> A_ADMIN_USERNAME,
                                age |-> 0]]
            /\ resp' = Answer(200, [success |-> TRUE])
    /\ UNCHANGED <<config, elsewhere, apiState, loginHits>>

A_login(c, ip, username, password) ==
    /\ server = "A"
    /\ LoginRequest(c, ip, username, password)
    /\ IF Falsy(A_ADMIN_PASSWORD_HASH)
       THEN /\ resp' = Answer(500, [success |-> FALSE, error |-> "Server not configured"])
            /\ UNCHANGED sessions
       ELSE IF clean(username) # A_ADMIN_USERNAME
       THEN /\ resp' = Answer(401, [success |-> FALSE, error |-> "Invalid credentials."])
            /\ UNCHANGED sessions
       ELSE IF ~bcryptCompare(OrElse(password, <<>>), A_ADMIN_PASSWORD_HASH)
       THEN /\ resp' = Answer(401, [success |-> FALSE, error |-> "Invalid credentials."])
            /\ UNCHANGED sessions
       ELSE /\ sessions' = [sessions EXCEPT ![c] =
                               [authenticated |-> TRUE, username |-> A_ADMIN_USERNAME,
                                age |-> 0]]
            /\ resp' = Answer(200, [success |-> TRUE])
    /\ UNCHANGED <<config, elsewhere, apiState, loginHits>>

A_status(c) ==
    /\ server = "A"
    /\ StatusRequest(c)
    /\ resp' = Answer(200, [authenticated |-> sessions[c].authenticated])
    /\ UNCHANGED <<config, elsewhere, apiState, sessions, loginHits>>

\* The browser after the response to a request of client c for a route: if
\* it is the request the browser was about to send, a 302 makes a GET of
\* its Location the next request and any other response is where it lands.
Received(c, route, response) ==
    IF browser.client # c \/ browser.request # route THEN browser
    ELSE IF response.status = 302
    THEN [browser EXCEPT !.request = response.body.location, !.hops = @ + 1]
    ELSE [browser EXCEPT !.request = "none",
                         !.landed = IF "page" \in DOMAIN response.body
                                    THEN response.body.page ELSE "other"]

A_logout(c) ==
    /\ server = "A"
    /\ LogoutRequest(c)
    /\ sessions' = [sessions EXCEPT ![c] = EmptySession]
    /\ resp' = Answer(302, [location |-> "/auth/login"])
    /\ browser' = Received(c, "logout", resp')
    /\ UNCHANGED <<config, besideBrowser, apiState, loginHits>>

\* GET /auth/login with requireAuth in front of the login page.
A_loginPageHandler_gated(c) ==
    IF sessions[c].authenticated THEN Answer(302, [location |-> "/"])
    ELSE Response("requireAuth", 302, [location |-> "/auth/login"], 0, "none")

\* GET /auth/login: the login page (login.html or the fallback form), or a
\* redirect to / for a session that is authenticated.
A_loginPageHandler(c) ==
    IF sessions[c].authenticated THEN Answer(302, [location |-> "/"])
    ELSE Answer(200, [page |-> "login"])

A_loginPage(c) ==
    /\ server = "A"
    /\ req' = Request("/auth/login", c, "any", None)
    /\ resp' = A_loginPageHandler(c)
    /\ browser' = Received(c, "/auth/login", resp')
    /\ UNCHANGED <<config, besideBrowser, apiState, sessions, loginHits, history>>

----------------------------------------------------------------------------
(* Server B: src/server.js lines 539-1252 *)

B_requireAuth(c) == "next"

B_login(c, ip, username, password) ==
    /\ server = "B"
    /\ LoginRequest(c, ip, username, password)
    /\ resp' = Answer(200, [success |-> TRUE])
    /\ UNCHANGED <<config, elsewhere, apiState, sessions, loginHits>>

B_status(c) ==
    /\ server = "B"
    /\ StatusRequest(c)
    /\ resp' = Answer(200, [authenticated |-> TRUE])
    /\ UNCHANGED <<config, elsewhere, apiState, sessions, loginHits>>

B_logout(c) ==
    /\ server = "B"
    /\ LogoutRequest(c)
    /\ resp' = Answer(200, [success |-> TRUE])
    /\ UNCHANGED <<config, elsewhere, apiState, sessions, loginHits>>

----------------------------------------------------------------------------
(* Server C: src/unnamed/part_003 *)

\* express-rate-limit: every request counts; the counter is kept only up to the
\* first value above the maximum (larger values behave the same).
Hit(hits, ip, max) == [hits EXCEPT ![ip] = IF @ > max THEN @ ELSE @ + 1]

\* TRUE when the limiter lets the request through.
loginLimiter(ip) == loginHits[ip] + 1 <= LOGIN_MAX

C_requireAuth(c) == IF sessions[c].authenticated THEN "next" ELSE "401"

\* body('username').trim().isLength({min: 1}).escape(); body('password').isLength({min: 1})
C_validUsername(username) == Len(trim(OrElse(username, <<>>))) >= 1
C_validPassword(password) == Len(OrElse(password, <<>>)) >= 1
C_sanitizedUsername(username) == escape(trim(OrElse(username, <<>>)))

C_login(c, ip, username, password) ==
    /\ server = "C"
    /\ LoginRequest(c, ip, username, password)
    /\ loginHits' = Hit(loginHits, ip, LOGIN_MAX)
    /\ IF ~loginLimiter(ip)
       THEN /\ resp' = Response("loginLimiter", 429, [message |-> "Too many login attempts"], 0, "none")
            /\ UNCHANGED sessions
       ELSE IF ~(C_validUsername(username) /\ C_validPassword(password))
       THEN /\ resp' = Answer(400, [error |-> "Invalid input"])
            /\ UNCHANGED sessions
       ELSE IF C_sanitizedUsername(username) = C_ADMIN_USERNAME
               /\ ~Falsy(C_ADMIN_PASSWORD_HASH)
               /\ bcryptCompare(password, C_ADMIN_PASSWORD_HASH)
       THEN /\ sessions' = [sessions EXCEPT ![c] =
                               [authenticated |-> TRUE,
                                username |-> C_sanitizedUsername(username),
                                age |-> 0]]
            /\ resp' = Answer(200, [success |-> TRUE])
       ELSE /\ resp' = Answer(401, [error |-> "Invalid credentials"])
            /\ UNCHANGED sessions
    /\ UNCHANGED <<config, elsewhere, apiState>>

C_status(c) ==
    /\ server = "C"
    /\ StatusRequest(c)
    /\ resp' = Answer(200, [authenticated |-> sessions[c].authenticated])
    /\ UNCHANGED <<config, elsewhere, apiState, sessions, loginHits>>

\* POST /auth/logout answering without destroying the session.
C_logout_keepsSession(c) ==
    /\ server = "C"
    /\ LogoutRequest(c)
    /\ resp' = Answer(200, [success |-> TRUE])
    /\ UNCHANGED <<config, elsewhere, apiState, sessions, loginHits>>

C_logout(c) ==
    /\ server = "C"
    /\ LogoutRequest(c)
    /\ sessions' = [sessions EXCEPT ![c] = EmptySession]
    /\ resp' = Answer(200, [success |-> TRUE])
    /\ UNCHANGED <<config, elsewhere, apiState, loginHits>>

----------------------------------------------------------------------------
(* Time *)

\* Fifteen minutes have passed since the first login request of an address:
\* the window of loginLimiter (windowMs) ends.
LoginWindowReset(ip) ==
    /\ attempts[ip] > 0
    /\ attempts' = [attempts EXCEPT ![ip] = 0]
    /\ loginHits' = [loginHits EXCEPT ![ip] = 0]
    /\ UNCHANGED <<config, elsewhere, apiState, sessions, req, resp, lastAuth>>

\* cookie.maxAge (24 h) of a stored session runs out. Server A sets no maxAge.
SessionExpire(c) ==
    /\ server \in {"B", "C"}
    /\ sessions[c] # EmptySession
    /\ sessions' = [sessions EXCEPT ![c] = EmptySession]
    /\ lastAuth' = [lastAuth EXCEPT ![c] = Event("expired")]
    /\ UNCHANGED <<config, elsewhere, apiState, loginHits, req, resp, attempts>>

\* cookie.maxAge of servers B and C, 24 * 60 * 60 * 1000 ms, in hours; server
\* A's cookie has no maxAge and its sessions no expiry.
MAX_AGE == 24

\* The hours by which the clock is moved on at a time, and the age beyond
\* which a session is not aged further.
TickHours == 12
MaxHours  == 48

\* TickHours pass.  Every session grows older; in servers B and C a session
\* whose cookie has reached its maxAge is gone: the browser no longer sends
\* the cookie and the store drops the session.
Tick ==
    /\ \E c \in Clients : sessions[c].authenticated /\ sessions[c].age < MaxHours
    /\ LET older(c)   == sessions[c].age + TickHours
           aged(c)    == IF older(c) > MaxHours THEN MaxHours ELSE older(c)
           expired(c) == server \in {"B", "C"} /\ aged(c) >= MAX_AGE
       IN  /\ sessions' =
                 [c \in Clients |->
                    IF ~sessions[c].authenticated THEN sessions[c]
                    ELSE IF expired(c) THEN EmptySession
                    ELSE [sessions[c] EXCEPT !.age = aged(c)]]
           /\ lastAuth' =
                 [c \in Clients |->
                    IF sessions[c].authenticated /\ expired(c) THEN Event("expired")
                    ELSE lastAuth[c]]
    /\ UNCHANGED <<config, elsewhere, apiState, loginHits, req, resp, attempts>>

----------------------------------------------------------------------------
(* JavaScript values.  A value is a record: k its kind, n its number (money *)
(* in cents, percentages in hundredths of a percent), s its text.           *)

Num(n)   == [k |-> "number", n |-> n, s |-> ""]
Str(t)   == [k |-> "string", n |-> 0, s |-> t]
\* The string Number.prototype.toFixed(2) returns for the number n / 100.
Fixed(n) == [k |-> "fixed", n |-> n, s |-> ""]
Undef    == [k |-> "undefined", n |-> 0, s |-> ""]
Null     == [k |-> "null", n |-> 0, s |-> ""]
\* NaN and the infinities: what arithmetic on undefined and a division by 0 give.
NaN      == [k |-> "NaN", n |-> 0, s |-> ""]
Infinity == [k |-> "Infinity", n |-> 0, s |-> ""]

\* obj.f, undefined for a property the object does not have.
Get(obj, f) == IF f \in DOMAIN obj THEN obj[f] ELSE Undef

Truthy(v) ==
    \/ v.k = "number" /\ v.n # 0
    \/ v.k = "string" /\ v.s # ""
    \/ v.k = "fixed"

\* a || b  and  a ?? b
Or(a, b)       == IF Truthy(a) THEN a ELSE b
Coalesce(a, b) == IF a.k \in {"undefined", "null"} THEN b ELSE a

ToNumber(v) ==
    CASE v.k = "number" -> v
      [] v.k = "null"   -> Num(0)
      [] OTHER          -> NaN

Minus(a, b) ==
    LET x == ToNumber(a)
        y == ToNumber(b)
    IN  IF x.k = "number" /\ y.k = "number" THEN Num(x.n - y.n) ELSE NaN

Abs(i) == IF i < 0 THEN -i ELSE i

\* a / b rounded to the nearest integer, halves away from zero (b # 0).
RoundDiv(a, b) ==
    LET q == (Abs(a) + Abs(b) \div 2) \div Abs(b)
    IN  IF (a < 0) = (b < 0) THEN q ELSE -q

\* a / b * 100 for two amounts of money, in hundredths of a percent.
PercentOf(a, b) ==
    LET x == ToNumber(a)
        y == ToNumber(b)
    IN  IF x.k # "number" \/ y.k # "number" THEN NaN
        ELSE IF y.n # 0 THEN Num(RoundDiv(x.n * 10000, y.n))
        ELSE IF x.n # 0 THEN Infinity
        ELSE NaN

\* v * num / den, to the nearest cent.
Scale(v, num, den) ==
    LET x == ToNumber(v)
    IN  IF x.k = "number" THEN Num(RoundDiv(x.n * num, den)) ELSE NaN

\* x.toFixed(2)
toFixed2(v) == IF v.k = "number" THEN Fixed(v.n) ELSE Str(v.k)

\* The properties of an object that res.json() writes: JSON.stringify drops
\* the properties whose value is undefined.
JsonFields(obj) == {f \in DOMAIN obj : obj[f].k # "undefined"}

----------------------------------------------------------------------------
(* The upstream provider, as the servers meet it.  One GET ends with a     *)
(* 2xx response carrying a payload, with an error status, or with no       *)
(* response at all (timeout, network error).                               *)

UpOk(data)     == [k |-> "ok", code |-> 200, data |-> data]
UpStatus(code) == [k |-> "status", code |-> code, data |-> [k |-> "none"]]
UpNoResponse   == [k |-> "noResponse", code |-> 0, data |-> [k |-> "none"]]

HttpErrors == {401, 404}
UpFailures == {UpNoResponse} \cup {UpStatus(code) : code \in HttpErrors}

\* Payloads: an array of rows, null, or a JSON object where an array is expected.
Rows(rows) == [k |-> "array", rows |-> rows]
NullData   == [k |-> "null", rows |-> <<>>]
ObjectData == [k |-> "object", rows |-> <<>>]

\* Outcomes of a GET: the provider answers 2xx only to a request with a token.
Outcomes(token, payloads) ==
    UpFailures \cup (IF token = key THEN {UpOk(d) : d \in payloads} ELSE {})

\* err?.response?.status of a failed GET; 0 stands for undefined.
ErrStatus(up) == IF up.k = "status" THEN up.code ELSE 0

\* How a GET ended, for the record of a request: with rows, with an empty
\* payload, with a payload that is no array, with an error status, or with
\* no response.
UpClass(up) ==
    CASE up.k # "ok" -> up.k
      [] up.data.k = "object" -> "malformed"
      [] up.data.k = "null" \/ up.data.rows = <<>> -> "empty"
      [] OTHER -> "rows"

\* status || 500
StatusOr500(status) == IF status = 0 THEN 500 ELSE status

\* An error status answered with a body of the provider's, {detail: ...};
\* UpStatus is an error status answered without a body.
ErrorDetail == [k |-> "object", detail |-> "Not found."]
UpError(code, body) == [k |-> "status", code |-> code, data |-> body]

\* err.message of a failed GET, as axios words it.
ErrMessage(up) ==
    CASE up.k = "status" /\ up.code = 401 -> "Request failed with status code 401"
      [] up.k = "status" /\ up.code = 404 -> "Request failed with status code 404"
      [] OTHER -> "timeout of 15000ms exceeded"

\* The symbols whose upstream rows are followed one by one; the other symbols
\* of a list are all known to the provider or all unknown.
Tracked == {"AAPL", "btcusd"}

Worlds(all) ==
    {S \cup R : S \in SUBSET (Tracked \cap all), R \in {{}, all \ Tracked}}

\* Quotes of the provider's IEX endpoint.  "full" carries every field,
\* "noPrev" has prevClose null, "bare" carries the ticker only.
QuoteKinds == {"full", "noPrev", "bare"}
LastPrices == {14900, 15100}

IexQuote(sym, kind, last) ==
    CASE kind = "full" ->
            [ticker |-> Str(sym), last |-> Num(last), prevClose |-> Num(15000),
             volume |-> Num(1000), high |-> Num(15200), low |-> Num(14800),
             open |-> Num(15050), bidPrice |-> Num(last - 1), askPrice |-> Num(last + 1)]
      [] kind = "noPrev" ->
            [ticker |-> Str(sym), last |-> Num(last), prevClose |-> Null,
             volume |-> Num(1000), high |-> Num(15200), low |-> Num(14800),
             open |-> Num(15050), bidPrice |-> Num(last - 1), askPrice |-> Num(last + 1)]
      [] OTHER -> [ticker |-> Str(sym)]

\* The rows the provider returns for the tickers of `list` (a sequence) that
\* it knows.
IexRows(list, known, kind, last) ==
    LET ks == SelectSeq(list, LAMBDA t : t \in known)
    IN  [i \in 1..Len(ks) |-> IexQuote(ks[i], kind, last)]

Range(seq) == {seq[i] : i \in 1..Len(seq)}

IexPayloads(list) ==
    {NullData, ObjectData}
    \cup {Rows(IexRows(list, known, kind, last)) :
            known \in Worlds(Range(list)), kind \in QuoteKinds, last \in LastPrices}

----------------------------------------------------------------------------
(* Server A: data routes *)

\* Helper to normalize Tiingo IEX quotes; q is never null here: the callers
\* are given NoQuote when there is none.
normalizeQuote(q) ==
    LET change == Minus(Coalesce(Get(q, "last"), Num(0)),
                        Coalesce(Get(q, "prevClose"), Num(0)))
    IN  [symbol        |-> Get(q, "ticker"),
         price         |-> Get(q, "last"),
         change        |-> change,
         changePercent |-> IF Truthy(Get(q, "prevClose"))
                           THEN PercentOf(change, Get(q, "prevClose"))
                           ELSE Num(0),
         volume        |-> Get(q, "volume"),
         high          |-> Get(q, "high"),
         low           |-> Get(q, "low"),
         open          |-> Get(q, "open"),
         close         |-> Get(q, "prevClose"),
         bidPrice      |-> Get(q, "bidPrice"),
         askPrice      |-> Get(q, "askPrice")]

DemoQuote(sym, price, change, pct, volume, high, low, open, close, bid, ask) ==
    [symbol |-> Str(sym), price |-> Num(price), change |-> Num(change),
     changePercent |-> Num(pct), volume |-> Num(volume), high |-> Num(high),
     low |-> Num(low), open |-> Num(open), close |-> Num(close),
     bidPrice |-> Num(bid), askPrice |-> Num(ask)]

DEMO_STOCKS ==
    [AAPL  |-> DemoQuote("AAPL", 15000, 120, 80, 5000000, 15100, 14900, 14950, 14880, 14990, 15010),
     MSFT  |-> DemoQuote("MSFT", 32000, -210, -65, 3000000, 32300, 31900, 32200, 32210, 31950, 32020),
     GOOGL |-> DemoQuote("GOOGL", 13500, 50, 37, 2000000, 13600, 13400, 13450, 13450, 13480, 13520),
     AMZN  |-> DemoQuote("AMZN", 14000, -80, -57, 2500000, 14100, 13900, 14020, 14080, 13990, 14010)]

DEMO_ETFS ==
    [SPY |-> DemoQuote("SPY", 44000, -100, -23, 1000000, 44100, 43800, 43900, 44100, 43950, 43980),
     QQQ |-> DemoQuote("QQQ", 37000, 250, 68, 800000, 37100, 36800, 36900, 36750, 36920, 37010)]

A_tickers == <<"AAPL", "MSFT", "GOOGL", "AMZN", "SPY", "QQQ">>
A_etfSymbols == {"SPY", "QQQ"}

\* Symbols a client may ask a quote or a history for.
SymbolInputs == {"AAPL", "SPY", "ZZZZ"}

\* The object built by forEach from the rows of the ETFs (etf) or of the
\* other symbols: a later row of a symbol replaces an earlier one.
QuoteMap(rows, etf) ==
    LET syms == {rows[i].ticker.s : i \in 1..Len(rows)}
        last(sym) == CHOOSE i \in 1..Len(rows) :
                        /\ rows[i].ticker.s = sym
                        /\ \A j \in 1..Len(rows) : rows[j].ticker.s = sym => j <= i
    IN  [sym \in {t \in syms : (t \in A_etfSymbols) = etf} |->
            normalizeQuote(rows[last(sym)])]

\* The /api routes without app.use('/api', requireAuth) in front of them.
A_apiGate_unmounted(c, path) == "next"

\* What requireAuth, mounted with app.use('/api', requireAuth), answers to a
\* request for /api/<path>: Express strips the mount path, so req.path is
\* /<path>.
A_apiGate(c, path) == A_requireAuth(c, path)

A_denied(gate) ==
    IF gate = "401"
    THEN Response("requireAuth", 401, [error |-> "Authentication required"], 0, "none")
    ELSE Response("requireAuth", 302, [location |-> "/auth/login"], 0, "none")

\* A request for /api/<path> of client c, answered by `handler` when
\* requireAuth lets it through.
A_api(c, route, path, facts, handler) ==
    /\ server = "A"
    /\ req' = Request(route, c, "any", facts)
    /\ resp' = IF A_apiGate(c, path) = "next" THEN handler
               ELSE A_denied(A_apiGate(c, path))
    /\ UNCHANGED <<config, elsewhere, apiState, sessions, loginHits, history>>

A_demoWatchlist(calls) ==
    Response("handler", 200,
             [dataSource |-> "demo", stocks |-> DEMO_STOCKS, etfs |-> DEMO_ETFS],
             calls, "synthetic")

\* GET /api/stocks
A_stocksHandler(up) ==
    IF Falsy(A_TIINGO_API_KEY) THEN A_demoWatchlist(0)
    ELSE IF up.k # "ok" \/ up.data.k = "object" THEN A_demoWatchlist(1)
    ELSE Response("handler", 200,
                  [dataSource |-> "tiingo",
                   stocks |-> QuoteMap(up.data.rows, FALSE),
                   etfs   |-> QuoteMap(up.data.rows, TRUE)],
                  1, "upstream")

A_stocks(c, up) ==
    A_api(c, "/api/stocks", <<"stocks">>, [up |-> UpClass(up)], A_stocksHandler(up))

A_demoOf(sym) ==
    IF sym \in DOMAIN DEMO_STOCKS THEN DEMO_STOCKS[sym]
    ELSE IF sym \in DOMAIN DEMO_ETFS THEN DEMO_ETFS[sym]
    ELSE [none |-> Undef]

A_hasDemo(sym) == sym \in DOMAIN DEMO_STOCKS \cup DOMAIN DEMO_ETFS

\* GET /api/stocks/:symbol
A_quoteHandler(sym, up) ==
    IF Falsy(A_TIINGO_API_KEY)
    THEN IF A_hasDemo(sym)
         THEN Response("handler", 200, A_demoOf(sym), 0, "synthetic")
         ELSE Response("handler", 404, [error |-> "Symbol not found"], 0, "none")
    ELSE IF up.k = "ok"
    THEN IF up.data.k = "array" /\ Len(up.data.rows) > 0
         THEN Response("handler", 200, normalizeQuote(up.data.rows[1]), 1, "upstream")
         ELSE Response("handler", 404, [error |-> "Symbol not found"], 1, "none")
    ELSE IF A_hasDemo(sym)
         THEN Response("handler", 200, A_demoOf(sym), 1, "synthetic")
         ELSE Response("handler", StatusOr500(ErrStatus(up)),
                       [error |-> ErrMessage(up)], 1, "none")

A_quote(c, sym, up) ==
    A_api(c, "/api/stocks/:symbol", <<"stocks", sym>>, [symbol |-> sym, up |-> UpClass(up)],
          A_quoteHandler(sym, up))

\* Dates.  An instant (a JavaScript Date) is a number of hours since an epoch,
\* in UTC; a day is a number of days since the epoch; every year has 365 days.
\* A time zone is its offset from UTC in hours (base) and the local day from
\* which daylight saving adds an hour (from; 0 for a zone without it).
MonthStart == <<0, 31, 59, 90, 120, 151, 181, 212, 243, 273, 304, 334, 365>>

\* The day number of day d of month m (1..12) of year y; d beyond the end of
\* the month runs on into the next one, as in the Date setters.
DayOf(y, m, d) == y * 365 + MonthStart[m] + d - 1

YearOf(day)  == day \div 365
MonthOf(day) == CHOOSE m \in 1..12 :
                    MonthStart[m] <= (day % 365) /\ (day % 365) < MonthStart[m + 1]
DateOf(day)  == (day % 365) - MonthStart[MonthOf(day)] + 1

OffsetOn(zone, localDay) ==
    zone.base + (IF zone.from # 0 /\ localDay >= zone.from THEN 1 ELSE 0)

\* The instant that is hour h of local day localDay in a zone.
Instant(zone, localDay, h) == localDay * 24 + h - OffsetOn(zone, localDay)

\* getDate()/getMonth()/getFullYear() read the local day of an instant: the
\* day with daylight saving's hour added if that day is in daylight saving.
LocalDay(zone, t) ==
    LET summer == (t + zone.base + 1) \div 24
    IN  IF zone.from # 0 /\ summer >= zone.from THEN summer
        ELSE (t + zone.base) \div 24
LocalHour(zone, t) == t - Instant(zone, LocalDay(zone, t), 0)

\* date.setDate(date.getDate() - n)
setDateBack(zone, t, n) ==
    LET day == LocalDay(zone, t)
    IN  Instant(zone, day - n, t - Instant(zone, day, 0))

\* date.setMonth(date.getMonth() - n), for n < 12
setMonthBack(zone, t, n) ==
    LET day == LocalDay(zone, t)
        m   == MonthOf(day) - n
        to  == IF m >= 1 THEN DayOf(YearOf(day), m, DateOf(day))
               ELSE DayOf(YearOf(day) - 1, m + 12, DateOf(day))
    IN  Instant(zone, to, LocalHour(zone, t))

\* date.setFullYear(date.getFullYear() - 1)
setFullYearBack(zone, t) ==
    Instant(zone, LocalDay(zone, t) - 365, LocalHour(zone, t))

\* A date string 'YYYY-MM-DD' and a timestamp 'YYYY-MM-DDT00:00:00.000Z': n is
\* the day the text names.
IsoDate(day)  == [k |-> "string", n |-> day, s |-> "YYYY-MM-DD"]
IsoStamp(day) == [k |-> "string", n |-> day, s |-> "YYYY-MM-DDT00:00:00.000Z"]

\* date.toISOString().slice(0, 10), date.toISOString().split('T')[0]: the UTC
\* day of the instant.
toISODate(t) == IsoDate(t \div 24)

\* item.date.split('T')[0]
datePart(v) == IsoDate(v.n)

\* The clocks a request may arrive at: noon of 10 January and of 31 March of
\* year 2 in UTC, and local midnight of 31 March in a zone that went over to
\* daylight saving on 25 March.
Utc    == [base |-> 0, from |-> 0]
Summer == [base |-> 0, from |-> DayOf(2, 3, 25)]
Zones  == {Utc, Summer}

Clocks ==
    {[zone |-> Utc,    now |-> Instant(Utc, DayOf(2, 1, 10), 12)],
     [zone |-> Utc,    now |-> Instant(Utc, DayOf(2, 3, 31), 12)],
     [zone |-> Summer, now |-> Instant(Summer, DayOf(2, 3, 31), 0)]}

\* The clocks at noon UTC.
NoonClocks == {c \in Clocks : c.zone.from = 0 /\ c.now % 24 = 12}

\* The provider's daily-prices endpoint: one bar for every trading day (five
\* days out of seven) from startDate to endDate on which the symbol was listed,
\* oldest first.
DailyBar(day) == [date |-> IsoStamp(day), close |-> Num(15000), volume |-> Num(1000)]

DailyBars(start, end, listed) ==
    LET from == IF listed > start THEN listed ELSE start
        days == SelectSeq([i \in 1..(end - from + 1) |-> from + i - 1],
                          LAMBDA d : d % 7 \notin {5, 6})
    IN  [i \in DOMAIN days |-> DailyBar(days[i])]

\* The symbol has been listed for years, or for the last three days.
HistoryPayloads(start, end) ==
    {NullData, Rows(<<>>)} \cup {Rows(DailyBars(start, end, listed)) : listed \in {0, end - 2}}

Periods == {"1W", "1M", "3M", "1Y"}

\* The query the history route sends: the switch on period.
A_historyParams(period, clock) ==
    LET end   == clock.now
        start == CASE period = "1D" -> setDateBack(clock.zone, end, 1)
                   [] period = "1W" -> setDateBack(clock.zone, end, 7)
                   [] period = "6M" -> setMonthBack(clock.zone, end, 6)
                   [] period = "1Y" -> setFullYearBack(clock.zone, end)
                   [] OTHER         -> setMonthBack(clock.zone, end, 1)
    IN  [startDate |-> toISODate(start), endDate |-> toISODate(end),
         resampleFreq |-> "daily"]

\* GET /api/stocks/:symbol/history; `sent` is the query of its upstream GET.
A_historyHandler(period, clock, up) ==
    LET sent == A_historyParams(period, clock)
    IN  IF up.k = "ok"
        THEN [Response("handler", 200, [dataSource |-> "tiingo", data |-> up.data],
                       1, "upstream") EXCEPT !.sent = sent]
        ELSE [Response("handler", StatusOr500(ErrStatus(up)), [error |-> ErrMessage(up)],
                       1, "none") EXCEPT !.sent = sent]

A_history(c, sym, period, clock, up) ==
    A_api(c, "/api/stocks/:symbol/history", <<"stocks", sym, "history">>,
          [symbol |-> sym, period |-> period, clock |-> clock, up |-> UpClass(up)],
          A_historyHandler(period, clock, up))

DEMO_CRYPTO ==
    [BTC |-> [symbol |-> Str("BTC"), price |-> Num(3000000), change |-> Num(30000),
              changePercent |-> Num(100), volume |-> Num(1200)],
     ETH |-> [symbol |-> Str("ETH"), price |-> Num(200000), change |-> Num(-1000),
              changePercent |-> Num(-50), volume |-> Num(5000)]]

\* Rows of the provider's crypto prices endpoint.  "flat" rows carry open,
\* close and volume themselves, "nested" rows carry them inside priceData.
CryptoKinds == {"flat", "nested"}
A_cryptoTickers == <<"btcusd", "ethusd">>

CryptoBar == [open |-> Num(2950000), close |-> Num(3000000), volume |-> Num(12)]

CryptoRow(ticker, kind) ==
    IF kind = "flat"
    THEN [ticker |-> Str(ticker), open |-> CryptoBar.open, close |-> CryptoBar.close,
          volume |-> CryptoBar.volume]
    ELSE [ticker |-> Str(ticker), priceData |-> <<CryptoBar>>]

CryptoRows(list, known, kind) ==
    LET ks == SelectSeq(list, LAMBDA t : t \in known)
    IN  [i \in 1..Len(ks) |-> CryptoRow(ks[i], kind)]

CryptoPayloads(list) ==
    {NullData, ObjectData}
    \cup {Rows(CryptoRows(list, known, kind)) :
            known \in SUBSET Range(list), kind \in CryptoKinds}

\* (q.ticker || '').toUpperCase().replace('USD', '')
A_cryptoBase(ticker) ==
    CASE ticker = "btcusd" -> "BTC"
      [] ticker = "ethusd" -> "ETH"
      [] OTHER -> ""

A_cryptoItem(q) ==
    LET change == Minus(IF Get(q, "close").k = "undefined" THEN NaN ELSE Get(q, "close"),
                        IF Get(q, "open").k = "undefined" THEN NaN ELSE Get(q, "open"))
    IN  [symbol        |-> Str(A_cryptoBase(q.ticker.s)),
         price         |-> Get(q, "close"),
         change        |-> change,
         changePercent |-> IF Truthy(Get(q, "open"))
                           THEN PercentOf(change, Get(q, "open"))
                           ELSE Num(0),
         volume        |-> Get(q, "volume")]

A_cryptoMap(rows) ==
    [base \in {A_cryptoBase(rows[i].ticker.s) : i \in 1..Len(rows)} |->
        A_cryptoItem(rows[CHOOSE i \in 1..Len(rows) :
                            /\ A_cryptoBase(rows[i].ticker.s) = base
                            /\ \A j \in 1..Len(rows) :
                                 A_cryptoBase(rows[j].ticker.s) = base => j <= i])]

\* GET /api/crypto
A_cryptoHandler(up) ==
    IF Falsy(A_TIINGO_API_KEY)
    THEN Response("handler", 200, [dataSource |-> "demo", crypto |-> DEMO_CRYPTO], 0, "synthetic")
    ELSE IF up.k # "ok" \/ up.data.k = "object"
    THEN Response("handler", 200, [dataSource |-> "demo", crypto |-> DEMO_CRYPTO], 1, "synthetic")
    ELSE Response("handler", 200,
                  [dataSource |-> "tiingo", crypto |-> A_cryptoMap(up.data.rows)],
                  1, "upstream")

A_crypto(c, up) ==
    A_api(c, "/api/crypto", <<"crypto">>, [up |-> UpClass(up)], A_cryptoHandler(up))

\* Currency prices are in thousandths of a unit.
DEMO_FX ==
    [EURUSD |-> [symbol |-> Str("EURUSD"), price |-> Num(1080), bid |-> Num(1079), ask |-> Num(1081)],
     GBPUSD |-> [symbol |-> Str("GBPUSD"), price |-> Num(1250), bid |-> Num(1249), ask |-> Num(1251)],
     USDJPY |-> [symbol |-> Str("USDJPY"), price |-> Num(140000), bid |-> Num(139900), ask |-> Num(140100)]]

A_fxTickers == <<"eurusd", "gbpusd", "usdjpy">>

\* Rows of the provider's forex top-of-book endpoint: "mid" carries midPrice,
\* "last" carries lastPrice instead, "bare" the ticker only.
FxKinds == {"mid", "last", "bare"}

FxRow(ticker, kind) ==
    CASE kind = "mid" ->
            [ticker |-> Str(ticker), midPrice |-> Num(1080), bidPrice |-> Num(1079),
             askPrice |-> Num(1081)]
      [] kind = "last" ->
            [ticker |-> Str(ticker), midPrice |-> Null, lastPrice |-> Num(1082),
             bidPrice |-> Num(1079), askPrice |-> Num(1081)]
      [] OTHER -> [ticker |-> Str(ticker)]

FxPayloads(list) ==
    {NullData, ObjectData}
    \cup {Rows([i \in 1..Len(ks) |-> FxRow(ks[i], kind)]) :
            ks \in {SelectSeq(list, LAMBDA t : t \in known) : known \in SUBSET Range(list)},
            kind \in FxKinds}

\* (q.ticker || '').toUpperCase()
A_fxSymbol(ticker) ==
    CASE ticker = "eurusd" -> "EURUSD"
      [] ticker = "gbpusd" -> "GBPUSD"
      [] ticker = "usdjpy" -> "USDJPY"
      [] OTHER -> ""

A_fxItem(q) ==
    [symbol |-> Str(A_fxSymbol(q.ticker.s)),
     price  |-> Coalesce(Get(q, "midPrice"), Get(q, "lastPrice")),
     bid    |-> Get(q, "bidPrice"),
     ask    |-> Get(q, "askPrice")]

A_fxMap(rows) ==
    [sym \in {A_fxSymbol(rows[i].ticker.s) : i \in 1..Len(rows)} |->
        A_fxItem(rows[CHOOSE i \in 1..Len(rows) :
                        /\ A_fxSymbol(rows[i].ticker.s) = sym
                        /\ \A j \in 1..Len(rows) :
                             A_fxSymbol(rows[j].ticker.s) = sym => j <= i])]

\* GET /api/fx
A_fxHandler(up) ==
    IF Falsy(A_TIINGO_API_KEY)
    THEN Response("handler", 200, [dataSource |-> "demo", fx |-> DEMO_FX], 0, "synthetic")
    ELSE IF up.k # "ok" \/ up.data.k = "object"
    THEN Response("handler", 200, [dataSource |-> "demo", fx |-> DEMO_FX], 1, "synthetic")
    ELSE Response("handler", 200, [dataSource |-> "tiingo", fx |-> A_fxMap(up.data.rows)],
                  1, "upstream")

A_fx(c, up) ==
    A_api(c, "/api/fx", <<"fx">>, [up |-> UpClass(up)], A_fxHandler(up))

DEMO_NEWS ==
    <<[title |-> Str("Demo data loaded"), source |-> Str("PFAFF"), url |-> Str("#"),
       publishedAt |-> Str("now")]>>

\* Articles of the provider's news endpoint: "full" or with the title only.
NewsKinds == {"full", "bare"}

NewsRow(kind) ==
    IF kind = "full"
    THEN [title |-> Str("Headline"), source |-> Str("wire"), url |-> Str("https://n/1"),
          publishedDate |-> Str("2024-01-02"), description |-> Str("Text"),
          tickers |-> Str("aapl")]
    ELSE [title |-> Str("Headline")]

NewsPayloads ==
    {NullData, ObjectData, Rows(<<>>)} \cup {Rows(<<NewsRow(kind)>>) : kind \in NewsKinds}

A_article(n) ==
    [title |-> Get(n, "title"), source |-> Get(n, "source"), url |-> Get(n, "url"),
     publishedAt |-> Get(n, "publishedDate")]

\* GET /api/news
A_newsHandler(up) ==
    IF Falsy(A_TIINGO_API_KEY)
    THEN Response("handler", 200, [dataSource |-> "demo", articles |-> DEMO_NEWS], 0, "synthetic")
    ELSE IF up.k # "ok" \/ up.data.k = "object"
    THEN Response("handler", 200, [dataSource |-> "demo", articles |-> DEMO_NEWS], 1, "synthetic")
    ELSE Response("handler", 200,
                  [dataSource |-> "tiingo",
                   articles |-> [i \in 1..Len(up.data.rows) |-> A_article(up.data.rows[i])]],
                  1, "upstream")

A_news(c, up) ==
    A_api(c, "/api/news", <<"news">>, [up |-> UpClass(up)], A_newsHandler(up))

\* The pass-through routes under /api/tiingo: the provider's payload, or
\* res.status(status || 500).json(err?.response?.data || {error: err?.message}).
ProxyRoutes ==
    {"/api/tiingo/daily/:ticker/prices", "/api/tiingo/iex", "/api/tiingo/iex/:ticker",
     "/api/tiingo/news", "/api/tiingo/fx/top", "/api/tiingo/fx/:ticker/top",
     "/api/tiingo/crypto/prices"}

\* An always-500 catch branch, as the health route has it.
A_proxyHandler_always500(up) ==
    IF up.k = "ok" THEN Response("handler", 200, up.data, 1, "upstream")
    ELSE Response("handler", 500, [error |-> ErrMessage(up)], 1, "none")

A_proxyHandler(up) ==
    IF up.k = "ok" THEN Response("handler", 200, up.data, 1, "upstream")
    ELSE Response("handler", StatusOr500(ErrStatus(up)),
                  IF up.k = "status" /\ up.data.k # "none" THEN up.data
                  ELSE [error |-> ErrMessage(up)],
                  1, "none")

\* req.path of a proxy route below the /api mount.
A_proxyPath(route) ==
    CASE route = "/api/tiingo/daily/:ticker/prices" -> <<"tiingo", "daily", "AAPL", "prices">>
      [] route = "/api/tiingo/iex"                  -> <<"tiingo", "iex">>
      [] route = "/api/tiingo/iex/:ticker"          -> <<"tiingo", "iex", "AAPL">>
      [] route = "/api/tiingo/news"                 -> <<"tiingo", "news">>
      [] route = "/api/tiingo/fx/top"               -> <<"tiingo", "fx", "top">>
      [] route = "/api/tiingo/fx/:ticker/top"       -> <<"tiingo", "fx", "eurusd", "top">>
      [] OTHER                                      -> <<"tiingo", "crypto", "prices">>

A_proxy(c, route, up) ==
    A_api(c, route, A_proxyPath(route), [up |-> UpClass(up), outcome |-> up],
          A_proxyHandler(up))

A_proxyIex(c, up) == A_proxy(c, "/api/tiingo/iex", up)

\* What the provider may answer to the GET of a proxy route.
ProxyPayloads(route) ==
    CASE route = "/api/tiingo/daily/:ticker/prices" ->
            HistoryPayloads(DayOf(2, 1, 1), DayOf(2, 1, 10))
      [] route \in {"/api/tiingo/iex", "/api/tiingo/iex/:ticker"} -> IexPayloads(<<"AAPL">>)
      [] route = "/api/tiingo/news" -> NewsPayloads
      [] route \in {"/api/tiingo/fx/top", "/api/tiingo/fx/:ticker/top"} ->
            FxPayloads(<<"eurusd">>)
      [] OTHER -> CryptoPayloads(<<"btcusd">>)

ProxyOutcomes(route) ==
    Outcomes(A_TIINGO_API_KEY, ProxyPayloads(route))
    \cup {UpError(code, ErrorDetail) : code \in HttpErrors}

\* 'Authorization: Token <key>': the key trimmed and stripped once more.
tiingoToken == stripChars(trim(OrElse(A_TIINGO_API_KEY, <<>>)), {"\r", "\n", "\""})

\* GET /api/tiingo/token
A_tokenHandler == Answer(200, [token |-> tiingoToken])

A_token(c) ==
    A_api(c, "/api/tiingo/token", <<"tiingo", "token">>, None, A_tokenHandler)

\* GET /api/health/tiingo
A_healthHandler(up) ==
    IF up.k = "ok"
    THEN Response("handler", 200, [ok |-> TRUE, tiingo |-> up.data], 1, "upstream")
    ELSE Response("handler", 500,
                  [ok |-> FALSE, status |-> ErrStatus(up), error |-> ErrMessage(up)],
                  1, "none")

A_healthTiingo(c, up) ==
    A_api(c, "/api/health/tiingo", <<"health", "tiingo">>, [up |-> UpClass(up)],
          A_healthHandler(up))

\* The pages behind requireAuth: GET / (route middleware) and
\* /dashboard.html (app.use('/dashboard.html', requireAuth) in front of
\* express.static).  In both, req.path is "/" when requireAuth runs.
PageRoutes == {"/", "/dashboard.html"}

A_pageHandler == Answer(200, [page |-> "dashboard"])

A_page(c, route) ==
    /\ server = "A"
    /\ route \in PageRoutes
    /\ req' = Request(route, c, "any", None)
    /\ resp' = IF A_requireAuth(c, <<>>) = "next" THEN A_pageHandler
               ELSE A_denied(A_requireAuth(c, <<>>))
    /\ browser' = Received(c, route, resp')
    /\ UNCHANGED <<config, besideBrowser, apiState, sessions, loginHits, history>>

\* err.message of the SyntaxError that express.json() raises for a body that
\* is not JSON.
ParseMessage == "Unexpected token } in JSON at position 1"

\* A request whose body is not JSON: express.json() (line 35), in front of
\* the session and of every route, passes the error to the error handler of
\* lines 525-528.
A_errorHandler == Response("errorHandler", 500, [error |-> "Server error"], 0, "none")

A_malformedBody(c) ==
    /\ server = "A"
    /\ req' = Request("malformed body", c, "any", None)
    /\ resp' = A_errorHandler
    /\ UNCHANGED <<config, elsewhere, apiState, sessions, loginHits, history>>

----------------------------------------------------------------------------
(* Servers B and C: the middleware in front of the /api routes *)

\* apiLimiter: an address that has used up the window's allowance (100
\* requests a minute in B, 1000 in C) is answered 429.  The requests are not
\* counted: any request that passes may be the one that uses the allowance up.
ApiLevels == {"below", "full"}
apiLimiter(ip) == apiHits[ip] = "below"

TooManyRequests ==
    Response("apiLimiter", 429, [message |-> "Too many requests, please try again later."],
             0, "none")

\* A request for an /api route of B or C: apiLimiter, then the gate, then the
\* handler, which answers `handler` and leaves `cache` in marketCache.
Api(c, ip, route, facts, gate, handler, cache) ==
    /\ req' = Request(route, c, ip, facts)
    /\ IF ~apiLimiter(ip)
       THEN resp' = TooManyRequests /\ UNCHANGED apiState
       ELSE /\ \E level \in ApiLevels : apiHits' = [apiHits EXCEPT ![ip] = level]
            /\ IF gate = "next"
               THEN resp' = handler /\ marketCache' = cache
               ELSE /\ resp' = Response("requireAuth", 401,
                                        [error |-> "Authentication required"], 0, "none")
                    /\ UNCHANGED marketCache
    /\ UNCHANGED <<config, elsewhere, sessions, loginHits, history>>

\* The end of apiLimiter's one-minute window of an address.
ApiWindowReset(ip) ==
    /\ server \in {"B", "C"}
    /\ apiHits[ip] = "full"
    /\ apiHits' = [apiHits EXCEPT ![ip] = "below"]
    /\ UNCHANGED <<config, elsewhere, sessions, loginHits, marketCache, req, resp, history>>

\* Math.random() - 0.5, in hundredths; the draws of one request are shared by
\* the symbols it generates data for.
Randoms == {-50, 49}

\* How one GET for one symbol ends: no response, an empty array, or rows.
Hows == {"fail", "empty", "rows"}

\* One way of ending for each symbol of a list: the symbols that are not
\* tracked all end the same way.
HowWorlds(syms) ==
    {[sym \in syms |-> IF sym \in Tracked THEN t[sym] ELSE r] :
        t \in [Tracked \cap syms -> Hows], r \in Hows}

\* The quotes the provider has in one request: their kind and last price.
QuoteInputs == {<<"full", 14900>>, <<"noPrev", 15100>>, <<"bare", 15100>>}

IexGet(sym, how, q) ==
    CASE how = "fail"  -> UpNoResponse
      [] how = "empty" -> UpOk(Rows(<<>>))
      [] OTHER         -> UpOk(Rows(<<IexQuote(sym, q[1], q[2])>>))

----------------------------------------------------------------------------
(* Server B: data routes *)

B_TIINGO_API_KEY == OrElse(env.TIINGO_API_KEY, placeholder)
isTiingoConfigured == ~Falsy(B_TIINGO_API_KEY) /\ B_TIINGO_API_KEY # placeholder

\* The record fetchTiingoRealTimeData builds from the first row of a payload.
B_liveQuote(symbol, d) ==
    LET price  == Or(Get(d, "last"), Get(d, "close"))
        change == Minus(price, Get(d, "prevClose"))
    IN  [symbol        |-> Str(symbol),
         price         |-> price,
         change        |-> change,
         changePercent |-> toFixed2(PercentOf(change, Get(d, "prevClose"))),
         volume        |-> Or(Get(d, "volume"), Num(0)),
         high          |-> Get(d, "high"),
         low           |-> Get(d, "low"),
         open          |-> Get(d, "open"),
         bidPrice      |-> Or(Get(d, "bid"), Scale(price, 999, 1000)),
         askPrice      |-> Or(Get(d, "ask"), Scale(price, 1001, 1000))]

\* fetchTiingoRealTimeData(symbols) when the token is configured: ups[sym] is
\* how the GET for sym ends.  A symbol whose GET fails or returns no row is
\* left out.
\* fetchTiingoRealTimeData without the try/catch around the GET of a symbol:
\* the first failed GET ends the function, and its caller falls back.
fetchTiingoRealTimeData_unguarded(symbols, ups) ==
    IF \E t \in Range(symbols) : ups[t].k # "ok" THEN << >>
    ELSE [sym \in {t \in Range(symbols) : ups[t].data.k = "array"
                                          /\ Len(ups[t].data.rows) > 0}
             |-> B_liveQuote(sym, ups[sym].data.rows[1])]

fetchTiingoRealTimeData(symbols, ups) ==
    [sym \in {t \in Range(symbols) : ups[t].k = "ok" /\ ups[t].data.k = "array"
                                     /\ Len(ups[t].data.rows) > 0}
        |-> B_liveQuote(sym, ups[sym].data.rows[1])]

B_stockSymbols == <<"AAPL", "GOOGL", "MSFT", "TSLA", "AMZN", "META", "NVDA">>
B_etfSymbols   == <<"SPY", "QQQ", "IWM", "VTI", "VOO">>

BaseQuote(sym, price, change, volume) ==
    [symbol |-> sym, basePrice |-> price, baseChange |-> change, volume |-> volume]

baseStocks ==
    [AAPL  |-> BaseQuote("AAPL", 18550, 230, 55234567),
     GOOGL |-> BaseQuote("GOOGL", 14280, -120, 28456789),
     MSFT  |-> BaseQuote("MSFT", 37890, 560, 32567890),
     TSLA  |-> BaseQuote("TSLA", 24850, -890, 89234567),
     AMZN  |-> BaseQuote("AMZN", 15520, 345, 45678901),
     META  |-> BaseQuote("META", 29867, -423, 23456789),
     NVDA  |-> BaseQuote("NVDA", 42188, 1567, 67890123)]

baseETFs ==
    [SPY |-> BaseQuote("SPY", 47230, 320, 67890123),
     QQQ |-> BaseQuote("QQQ", 38945, 412, 45123890),
     IWM |-> BaseQuote("IWM", 20167, -123, 23456789),
     VTI |-> BaseQuote("VTI", 24580, 185, 34567890),
     VOO |-> BaseQuote("VOO", 42145, 267, 23456780)]

\* generateMockStockData with the draws rp (price) and rc (change, volume).
generateMockStockData(rp, rc) ==
    [sym \in DOMAIN baseStocks |->
        LET base == baseStocks[sym]
            priceVariation  == rp * 5
            changeVariation == rc * 2
            currentPrice  == base.basePrice + priceVariation
            currentChange == base.baseChange + changeVariation
        IN  [symbol        |-> Str(sym),
             price         |-> Num(currentPrice),
             change        |-> Num(currentChange),
             changePercent |-> toFixed2(PercentOf(Num(currentChange), Num(currentPrice))),
             volume        |-> Num(base.volume + rc * 10000),
             high          |-> Num(currentPrice + Abs(priceVariation) + 100),
             low           |-> Num(currentPrice - Abs(priceVariation) - 100),
             bidPrice      |-> Num(currentPrice - 5),
             askPrice      |-> Num(currentPrice + 5)]]

generateMockETFData(rp, rc) ==
    [sym \in DOMAIN baseETFs |->
        LET base == baseETFs[sym]
            priceVariation  == rp * 3
            changeVariation == rc
            currentPrice  == base.basePrice + priceVariation
            currentChange == base.baseChange + changeVariation
        IN  [symbol        |-> Str(sym),
             price         |-> Num(currentPrice),
             change        |-> Num(currentChange),
             changePercent |-> toFixed2(PercentOf(Num(currentChange), Num(currentPrice))),
             volume        |-> Num(base.volume + rc * 5000),
             high          |-> Num(currentPrice + Abs(priceVariation) + 50),
             low           |-> Num(currentPrice - Abs(priceVariation) - 50)]]

\* GET /api/stocks: ups[sym] is how the GET for sym ends.
B_stocksLive(ups) ==
    /\ isTiingoConfigured
    /\ \/ DOMAIN fetchTiingoRealTimeData(B_stockSymbols, ups) # {}
       \/ DOMAIN fetchTiingoRealTimeData(B_etfSymbols, ups) # {}

\* GET /api/stocks that tops the fetched quotes up with generated ones for
\* the symbols the provider did not answer for.
B_stocksHandler_toppedUp(ups, rp, rc) ==
    IF B_stocksLive(ups)
    THEN LET stocks == fetchTiingoRealTimeData(B_stockSymbols, ups)
             etfs   == fetchTiingoRealTimeData(B_etfSymbols, ups)
         IN  Response("handler", 200,
                      [stocks |-> [sym \in DOMAIN baseStocks |->
                                      IF sym \in DOMAIN stocks THEN stocks[sym]
                                      ELSE generateMockStockData(rp, rc)[sym]],
                       etfs   |-> [sym \in DOMAIN baseETFs |->
                                      IF sym \in DOMAIN etfs THEN etfs[sym]
                                      ELSE generateMockETFData(rp, rc)[sym]],
                       lastUpdated |-> Str("now"), dataSource |-> "live"],
                      Len(B_stockSymbols) + Len(B_etfSymbols), "upstream")
    ELSE Response("handler", 200,
                  [stocks |-> generateMockStockData(rp, rc),
                   etfs   |-> generateMockETFData(rp, rc),
                   lastUpdated |-> Str("now"), dataSource |-> "fallback"],
                  IF isTiingoConfigured THEN Len(B_stockSymbols) + Len(B_etfSymbols) ELSE 0,
                  "synthetic")

B_stocksHandler(ups, rp, rc) ==
    IF B_stocksLive(ups)
    THEN Response("handler", 200,
                  [stocks |-> fetchTiingoRealTimeData(B_stockSymbols, ups),
                   etfs   |-> fetchTiingoRealTimeData(B_etfSymbols, ups),
                   lastUpdated |-> Str("now"), dataSource |-> "live"],
                  Len(B_stockSymbols) + Len(B_etfSymbols), "upstream")
    ELSE Response("handler", 200,
                  [stocks |-> generateMockStockData(rp, rc),
                   etfs   |-> generateMockETFData(rp, rc),
                   lastUpdated |-> Str("now"), dataSource |-> "fallback"],
                  IF isTiingoConfigured THEN Len(B_stockSymbols) + Len(B_etfSymbols) ELSE 0,
                  "synthetic")

B_stocks(c, ip, ups, rp, rc) ==
    /\ server = "B"
    /\ Api(c, ip, "/api/stocks", [ups |-> [sym \in DOMAIN ups |-> UpClass(ups[sym])]],
           B_requireAuth(c), B_stocksHandler(ups, rp, rc),
           [marketCache EXCEPT !.stocks = B_stocksHandler(ups, rp, rc).origin])

\* GET /api/stocks/:symbol: up is how the GET for the symbol ends.
B_quoteHandler(sym, up, rp, rc) ==
    LET realData == fetchTiingoRealTimeData(<<sym>>, [t \in {sym} |-> up])
        live     == isTiingoConfigured /\ sym \in DOMAIN realData
        calls    == IF isTiingoConfigured THEN 1 ELSE 0
    IN  IF live THEN Response("handler", 200, realData[sym], calls, "upstream")
        ELSE IF sym \in DOMAIN baseETFs
        THEN Response("handler", 200, generateMockETFData(rp, rc)[sym], calls, "synthetic")
        ELSE IF sym \in DOMAIN baseStocks
        THEN Response("handler", 200, generateMockStockData(rp, rc)[sym], calls, "synthetic")
        ELSE Response("handler", 404, [error |-> "Stock not found"], calls, "none")

B_quote(c, ip, sym, up, rp, rc) ==
    /\ server = "B"
    /\ Api(c, ip, "/api/stocks/:symbol", [symbol |-> sym], B_requireAuth(c),
           B_quoteHandler(sym, up, rp, rc), marketCache)

B_cryptoSymbols == <<"btcusd", "ethusd", "adausd">>

\* How one GET of the crypto prices of one symbol ends.
CryptoHows == {"fail", "empty", "flat", "nested"}

CryptoGet(sym, how) ==
    CASE how = "fail"  -> UpNoResponse
      [] how = "empty" -> UpOk(Rows(<<>>))
      [] OTHER         -> UpOk(Rows(<<CryptoRow(sym, how)>>))

CryptoWorlds(syms) ==
    {[sym \in syms |-> CryptoGet(sym, IF sym \in Tracked THEN t ELSE r)] :
        t \in CryptoHows, r \in CryptoHows}

\* symbol.toUpperCase()
B_cryptoUpper(sym) ==
    CASE sym = "btcusd" -> "BTCUSD"
      [] sym = "ethusd" -> "ETHUSD"
      [] OTHER -> "ADAUSD"

\* The record fetchTiingoCrypto builds from latest.priceData[0].
B_liveCrypto(sym, priceData) ==
    LET change == Minus(Get(priceData, "close"), Get(priceData, "open"))
    IN  [symbol        |-> Str(B_cryptoUpper(sym)),
         price         |-> Get(priceData, "close"),
         change        |-> change,
         changePercent |-> toFixed2(PercentOf(change, Get(priceData, "open"))),
         volume        |-> Or(Get(priceData, "volume"), Num(0))]

\* fetchTiingoCrypto() when the token is configured.  Reading priceData[0] of
\* a row without priceData throws, which skips the symbol like a failed GET.
fetchTiingoCrypto(ups) ==
    LET latest(sym) == ups[sym].data.rows[Len(ups[sym].data.rows)]
    IN  [sym \in {t \in Range(B_cryptoSymbols) :
                    /\ ups[t].k = "ok" /\ ups[t].data.k = "array"
                    /\ Len(ups[t].data.rows) > 0
                    /\ "priceData" \in DOMAIN latest(t)}
            |-> B_liveCrypto(sym, latest(sym).priceData[1])]

\* ADAUSD's amounts, which the code gives to four decimals, are rounded to
\* the cent.
baseCrypto ==
    [btcusd |-> BaseQuote("BTCUSD", 6543210, 125030, 12345678),
     ethusd |-> BaseQuote("ETHUSD", 324567, -8945, 8765432),
     adausd |-> BaseQuote("ADAUSD", 46, 1, 98765432)]

generateMockCryptoData(rp, rc) ==
    [sym \in DOMAIN baseCrypto |->
        LET base == baseCrypto[sym]
            priceVariation  == RoundDiv(rp * (base.basePrice \div 20), 100)
            changeVariation == RoundDiv(rc * (base.baseChange \div 2), 100)
            currentPrice  == base.basePrice + priceVariation
            currentChange == base.baseChange + changeVariation
        IN  [symbol        |-> Str(base.symbol),
             price         |-> Num(currentPrice),
             change        |-> Num(currentChange),
             changePercent |-> toFixed2(PercentOf(Num(currentChange), Num(currentPrice))),
             volume        |-> Num(base.volume + rc * 20000)]]

B_cryptoLive(ups) == isTiingoConfigured /\ DOMAIN fetchTiingoCrypto(ups) # {}

\* GET /api/crypto
B_cryptoHandler(ups, rp, rc) ==
    IF B_cryptoLive(ups)
    THEN Response("handler", 200,
                  [crypto |-> fetchTiingoCrypto(ups), lastUpdated |-> Str("now"),
                   dataSource |-> "live"],
                  Len(B_cryptoSymbols), "upstream")
    ELSE Response("handler", 200,
                  [crypto |-> generateMockCryptoData(rp, rc), lastUpdated |-> Str("now"),
                   dataSource |-> "fallback"],
                  IF isTiingoConfigured THEN Len(B_cryptoSymbols) ELSE 0, "synthetic")

B_crypto(c, ip, ups, rp, rc) ==
    /\ server = "B"
    /\ Api(c, ip, "/api/crypto", None, B_requireAuth(c), B_cryptoHandler(ups, rp, rc),
           [marketCache EXCEPT !.crypto = B_cryptoHandler(ups, rp, rc).origin])

B_newsSymbols == <<"AAPL", "MSFT", "TSLA">>

\* How one GET of the news of one symbol ends: no response, an empty array,
\* or one article (full, or with the title only).  The article of a tracked
\* symbol has a title of its own, the other symbols get the same article.
NewsHows == {"fail", "empty", "full", "bare"}

NewsGet(sym, how) ==
    CASE how = "fail"  -> UpNoResponse
      [] how = "empty" -> UpOk(Rows(<<>>))
      [] OTHER ->
            UpOk(Rows(<<IF sym \in Tracked
                        THEN [NewsRow(how) EXCEPT !.title = Str("Headline on " \o sym)]
                        ELSE NewsRow(how)>>))

NewsWorlds(syms) ==
    {[sym \in syms |-> NewsGet(sym, IF sym \in Tracked THEN t ELSE r)] :
        t \in NewsHows, r \in NewsHows}

B_article(item) ==
    [title       |-> Get(item, "title"),
     source      |-> Or(Get(item, "source"), Str("TIINGO NEWS")),
     publishedAt |-> Get(item, "publishedDate"),
     url         |-> Get(item, "url"),
     description |-> Get(item, "description")]

RECURSIVE B_allNews(_, _)
\* allNews after the GETs for the symbols of the list.
B_allNews(symbols, ups) ==
    IF symbols = <<>> THEN <<>>
    ELSE LET up == ups[Head(symbols)]
             items == IF up.k = "ok" /\ up.data.k = "array"
                      THEN [i \in 1..Len(up.data.rows) |-> B_article(up.data.rows[i])]
                      ELSE <<>>
         IN  items \o B_allNews(Tail(symbols), ups)

RECURSIVE B_firstOfTitle(_, _)
\* The articles of a list that are the first of their title.
B_firstOfTitle(seen, items) ==
    IF items = <<>> THEN <<>>
    ELSE IF Head(items).title \in seen THEN B_firstOfTitle(seen, Tail(items))
    ELSE <<Head(items)>> \o B_firstOfTitle(seen \cup {Head(items).title}, Tail(items))

\* uniqueNews.slice(0, 20)
NEWS_MAX == 20

\* new Date(publishedAt).getTime(), in days; 0 stands for the NaN of a
\* missing or unreadable date.
PublishedDates == <<"2024-01-01", "2024-01-02", "2024-01-03">>

DateValue(v) ==
    IF v.k = "string" /\ v.s \in Range(PublishedDates)
    THEN CHOOSE i \in 1..Len(PublishedDates) : PublishedDates[i] = v.s
    ELSE 0

\* (a, b) => new Date(b.publishedAt) - new Date(a.publishedAt); sort takes
\* the NaN of an unreadable date for 0.
byNewest(a, b) ==
    IF DateValue(a.publishedAt) = 0 \/ DateValue(b.publishedAt) = 0 THEN 0
    ELSE DateValue(b.publishedAt) - DateValue(a.publishedAt)

\* A sort that leaves the articles in the order they were fetched in.
sortNews_unsorted(items) == items

RECURSIVE insertNews(_, _)
\* x put behind the articles of a sorted list that are not older than it.
insertNews(sorted, x) ==
    IF sorted = <<>> THEN <<x>>
    ELSE IF byNewest(Head(sorted), x) > 0 THEN <<x>> \o sorted
    ELSE <<Head(sorted)>> \o insertNews(Tail(sorted), x)

RECURSIVE sortNews(_)
\* Array.prototype.sort with byNewest: stable, the newest first.
sortNews(items) ==
    IF items = <<>> THEN <<>>
    ELSE insertNews(sortNews(SubSeq(items, 1, Len(items) - 1)), items[Len(items)])

\* slice(0, n)
slice(items, n) == SubSeq(items, 1, IF Len(items) < n THEN Len(items) ELSE n)

\* fetchTiingoNews() when the token is configured.
fetchTiingoNews(ups) ==
    slice(sortNews(B_firstOfTitle({}, B_allNews(B_newsSymbols, ups))), NEWS_MAX)

DemoArticle(title, source) ==
    [title |-> Str(title), source |-> Str(source), publishedAt |-> Str("now"), url |-> Str("#")]

B_demoNews ==
    <<DemoArticle("Tech Stocks Rally on Strong Earnings - DEMO MODE", "PFAFF FINANCIAL"),
      DemoArticle("Federal Reserve Maintains Interest Rates - DEMO MODE", "REUTERS"),
      DemoArticle("Apple Announces New Product Line - DEMO MODE", "CNBC"),
      DemoArticle("Market Volatility Expected This Week - DEMO MODE", "BLOOMBERG"),
      DemoArticle("Cryptocurrency Markets Show Stability - DEMO MODE", "COINDESK")>>

B_newsLive(ups) == isTiingoConfigured /\ fetchTiingoNews(ups) # <<>>

\* fetchTiingoNews() called on its own; the request keeps what the GETs for
\* the symbols ended with.
FetchNews(ups) ==
    /\ server = "B"
    /\ isTiingoConfigured
    /\ req' = Request("fetchTiingoNews", "c1", "any", [ups |-> ups])
    /\ resp' = Response("fetchTiingoNews", 0, [articles |-> fetchTiingoNews(ups)],
                        Len(B_newsSymbols), "upstream")
    /\ UNCHANGED <<config, elsewhere, apiState, sessions, loginHits, history>>

\* GET /api/news
B_newsHandler(ups) ==
    IF B_newsLive(ups)
    THEN Response("handler", 200,
                  [articles |-> fetchTiingoNews(ups), lastUpdated |-> Str("now"),
                   dataSource |-> "live"],
                  Len(B_newsSymbols), "upstream")
    ELSE Response("handler", 200,
                  [articles |-> B_demoNews, lastUpdated |-> Str("now"),
                   dataSource |-> "fallback"],
                  IF isTiingoConfigured THEN Len(B_newsSymbols) ELSE 0, "synthetic")

B_news(c, ip, ups) ==
    /\ server = "B"
    /\ Api(c, ip, "/api/news", None, B_requireAuth(c), B_newsHandler(ups),
           [marketCache EXCEPT !.news = B_newsHandler(ups).origin])

\* The number of days of a period: period === '1W' ? 7 : period === '1M' ? 30 :
\* period === '3M' ? 90 : 365
periodDays(period) ==
    CASE period = "1W" -> 7
      [] period = "1M" -> 30
      [] period = "3M" -> 90
      [] OTHER         -> 365

\* symbol.toUpperCase()
toUpperCase(sym) == IF sym = "aapl" THEN "AAPL" ELSE sym

HistorySymbols == {"AAPL", "aapl", "ZZZZ"}

\* Math.sin(x), x >= 0 in thousandths of a radian, in thousandths (Bhaskara's
\* approximation, within 2 thousandths).
sin(x) ==
    LET r == x % 6284
        h == IF r <= 3142 THEN r ELSE r - 3142
        p == (h * (3142 - h)) \div 100
        v == RoundDiv(16000 * p, 493608 - 4 * p)
    IN  IF r <= 3142 THEN v ELSE -v

Max(a, b) == IF a >= b THEN a ELSE b

\* The query of the history route's upstream GET: startDate is `days` times
\* 24 hours before now, no endDate.
B_historyParams(period, clock) ==
    [token |-> B_TIINGO_API_KEY,
     startDate |-> toISODate(clock.now - periodDays(period) * 24),
     resampleFreq |-> "daily"]

\* The provider's answer runs up to the current UTC day.
B_historyPayloads(period, clock) ==
    HistoryPayloads(B_historyParams(period, clock).startDate.n, toISODate(clock.now).n)

\* response.data.map(item => ({date, close, volume}))
B_liveHistory(rows) ==
    [i \in DOMAIN rows |->
        [date   |-> datePart(rows[i].date),
         close  |-> Get(rows[i], "close"),
         volume |-> Or(Get(rows[i], "volume"), Num(0))]]

\* A loop that counts up instead, for (let i = 0; i <= days; i++): the same
\* points, newest first.
B_demoHistory_newestFirst(period, clock, rb, rn) ==
    LET days      == periodDays(period)
        basePrice == 15000 + (rb + 50) * 200
    IN  [k \in 1..(days + 1) |->
            LET i     == k - 1
                trend == RoundDiv(sin(i * 100), 2)
                noise == rn * 8
            IN  [date   |-> toISODate(setDateBack(clock.zone, clock.now, i)),
                 close  |-> Num(Max(1000, basePrice + trend + noise)),
                 volume |-> Num((rn + 50) * 100000 + 1000000)]]

\* The generated series: for (let i = days; i >= 0; i--), one point for the
\* day i days before today.  rb is the draw of the base price, rn the draw of
\* the noise and the volume, shared by the points.
B_demoHistory(period, clock, rb, rn) ==
    LET days      == periodDays(period)
        basePrice == 15000 + (rb + 50) * 200
    IN  [k \in 1..(days + 1) |->
            LET i     == days + 1 - k
                trend == RoundDiv(sin(i * 100), 2)
                noise == rn * 8
            IN  [date   |-> toISODate(setDateBack(clock.zone, clock.now, i)),
                 close  |-> Num(Max(1000, basePrice + trend + noise)),
                 volume |-> Num((rn + 50) * 100000 + 1000000)]]

B_historyLive(up) ==
    isTiingoConfigured /\ up.k = "ok" /\ up.data.k = "array" /\ Len(up.data.rows) > 0

\* GET /api/stocks/:symbol/history
B_historyHandler(sym, period, clock, up, rb, rn) ==
    [Response("handler", 200,
              [symbol |-> Str(toUpperCase(sym)), period |-> Str(period),
               data |-> IF B_historyLive(up) THEN B_liveHistory(up.data.rows)
                        ELSE B_demoHistory(period, clock, rb, rn),
               dataSource |-> IF B_historyLive(up) THEN "live" ELSE "fallback"],
              IF isTiingoConfigured THEN 1 ELSE 0,
              IF B_historyLive(up) THEN "upstream" ELSE "synthetic")
        EXCEPT !.sent = IF isTiingoConfigured THEN B_historyParams(period, clock) ELSE None]

B_history(c, ip, sym, period, clock, up, rb, rn) ==
    /\ server = "B"
    /\ Api(c, ip, "/api/stocks/:symbol/history",
           [symbol |-> sym, period |-> period, clock |-> clock, up |-> UpClass(up),
            payload |-> up.data],
           B_requireAuth(c), B_historyHandler(sym, period, clock, up, rb, rn), marketCache)

----------------------------------------------------------------------------
(* Server C: data routes *)

\* TIINGO_CONFIG.API_KEY and the test the handlers make of it.
C_API_KEY == OrElse(env.TIINGO_API_KEY, placeholder)
C_configured == ~Falsy(C_API_KEY) /\ C_API_KEY # placeholder

MockQuote(sym, price, change, pct, volume) ==
    [symbol |-> Str(sym), price |-> Num(price), change |-> Num(change),
     changePercent |-> Fixed(pct), volume |-> Num(volume)]

mockStockData ==
    [AAPL  |-> MockQuote("AAPL", 18550, 230, 126, 55234567),
     GOOGL |-> MockQuote("GOOGL", 14280, -120, -83, 28456789),
     MSFT  |-> MockQuote("MSFT", 37890, 560, 150, 32567890),
     TSLA  |-> MockQuote("TSLA", 24850, -890, -346, 89234567),
     AMZN  |-> MockQuote("AMZN", 15520, 345, 227, 45678901),
     META  |-> MockQuote("META", 29867, -423, -140, 23456789),
     NVDA  |-> MockQuote("NVDA", 42188, 1567, 386, 67890123)]

mockETFData ==
    [SPY |-> MockQuote("SPY", 47230, 320, 68, 67890123),
     QQQ |-> MockQuote("QQQ", 38945, 412, 107, 45123890),
     IWM |-> MockQuote("IWM", 20167, -123, -61, 23456789)]

\* ADAUSD's amounts, which the code gives to four decimals, are rounded to
\* the cent.
mockCryptoData ==
    [BTCUSD |-> MockQuote("BTCUSD", 6543210, 125030, 195, 12345678),
     ETHUSD |-> MockQuote("ETHUSD", 324567, -8945, -268, 8765432),
     ADAUSD |-> MockQuote("ADAUSD", 46, 1, 277, 98765432)]

\* A record of a mock table with price, change and changePercent replaced:
\* the price moves by `variation` cents, the change by `part` cents of it.
C_varied(baseData, variation, part) ==
    [baseData EXCEPT
        !.price = Num(baseData.price.n + variation),
        !.change = Num(baseData.change.n + part),
        !.changePercent = toFixed2(PercentOf(Num(baseData.change.n + part), baseData.price))]

\* GET /api/stocks: test is how the GET of the provider's /api/test ends; r is
\* the draw of the variation.
C_stocksHandler(test, r) ==
    Response("handler", 200,
             [stocks |-> [sym \in DOMAIN mockStockData |->
                            C_varied(mockStockData[sym], r * 2, r)],
              etfs   |-> [sym \in DOMAIN mockETFData |->
                            C_varied(mockETFData[sym], r * 2, r)],
              lastUpdated |-> Str("now"),
              dataSource |-> IF C_configured /\ test.k = "ok" THEN "live" ELSE "fallback",
              subscription |-> Str("Tiingo Power")],
             IF C_configured THEN 1 ELSE 0, "synthetic")

C_stocks(c, ip, test, r) ==
    /\ server = "C"
    /\ Api(c, ip, "/api/stocks", None, C_requireAuth(c), C_stocksHandler(test, r),
           [marketCache EXCEPT !.stocks = "synthetic"])

\* GET /api/crypto
C_cryptoHandler(r) ==
    Response("handler", 200,
             [crypto |-> [sym \in DOMAIN mockCryptoData |->
                            C_varied(mockCryptoData[sym], r * 100, r * 10)],
              lastUpdated |-> Str("now"),
              dataSource |-> IF C_configured THEN "live" ELSE "fallback",
              subscription |-> Str("Tiingo Power")],
             0, "synthetic")

C_crypto(c, ip, r) ==
    /\ server = "C"
    /\ Api(c, ip, "/api/crypto", None, C_requireAuth(c), C_cryptoHandler(r),
           [marketCache EXCEPT !.crypto = "synthetic"])

C_newsData ==
    <<DemoArticle("Markets Open Higher Amid Tech Rally", "TIINGO"),
      DemoArticle("Federal Reserve Signals Rate Stability", "REUTERS"),
      DemoArticle("Apple Reports Strong Quarterly Earnings", "CNBC"),
      DemoArticle("Tesla Announces New Manufacturing Facility", "BLOOMBERG"),
      DemoArticle("Cryptocurrency Market Shows Strong Recovery", "COINDESK")>>

\* GET /api/news
C_newsHandler ==
    Response("handler", 200,
             [articles |-> C_newsData, lastUpdated |-> Str("now"),
              dataSource |-> IF C_API_KEY # placeholder THEN "live" ELSE "fallback",
              subscription |-> Str("Tiingo Power")],
             0, "synthetic")

C_news(c, ip) ==
    /\ server = "C"
    /\ Api(c, ip, "/api/news", None, C_requireAuth(c), C_newsHandler,
           [marketCache EXCEPT !.news = "synthetic"])

\* The record GET /api/stocks/:symbol makes up for a symbol that is not in
\* mockStockData; d is the draw of Math.random() - 0.5.
C_dynamicQuote(sym, d) ==
    [symbol |-> Str(sym), price |-> Num(15000 + (d + 50) * 50), change |-> Num(d * 10),
     changePercent |-> Fixed(d * 5), volume |-> Num((d + 50) * 100000)]

\* GET /api/stocks/:symbol
C_quoteHandler(sym, d, r) ==
    LET stockData == IF sym \in DOMAIN mockStockData THEN mockStockData[sym]
                     ELSE C_dynamicQuote(sym, d)
        variation == r * 2
    IN  Response("handler", 200,
                 [symbol        |-> stockData.symbol,
                  price         |-> Num(stockData.price.n + variation),
                  change        |-> Num(stockData.change.n + r),
                  changePercent |-> stockData.changePercent,
                  volume        |-> stockData.volume,
                  high          |-> Num(stockData.price.n + Abs(variation) + 200),
                  low           |-> Num(stockData.price.n - Abs(variation) - 200),
                  bidPrice      |-> Num(stockData.price.n - 5),
                  askPrice      |-> Num(stockData.price.n + 5)],
                 0, "synthetic")

C_quote(c, ip, sym, d, r) ==
    /\ server = "C"
    /\ Api(c, ip, "/api/stocks/:symbol", [symbol |-> sym], C_requireAuth(c),
           C_quoteHandler(sym, d, r), marketCache)

\* GET /api/stocks/:symbol/history: a generated series, one point for each of
\* the days from `days` days ago to today; r is the draw of the variation and
\* the volume, shared by the points.  No upstream call is made.
C_demoHistory(sym, period, clock, r) ==
    LET days      == periodDays(period)
        basePrice == IF toUpperCase(sym) \in DOMAIN mockStockData
                     THEN Or(mockStockData[toUpperCase(sym)].price, Num(15000)).n
                     ELSE 15000
    IN  [k \in 1..(days + 1) |->
            LET i == days + 1 - k
            IN  [date   |-> toISODate(setDateBack(clock.zone, clock.now, i)),
                 close  |-> Num(Max(5000, basePrice + r * 10)),
                 volume |-> Num((r + 50) * 100000)]]

C_historyHandler(sym, period, clock, r) ==
    Response("handler", 200,
             [symbol |-> Str(toUpperCase(sym)), period |-> Str(period),
              data |-> C_demoHistory(sym, period, clock, r),
              dataSource |-> IF C_API_KEY # placeholder THEN "live" ELSE "fallback",
              subscription |-> Str("Tiingo Power")],
             0, "synthetic")

C_history(c, ip, sym, period, clock, r) ==
    /\ server = "C"
    /\ Api(c, ip, "/api/stocks/:symbol/history",
           [symbol |-> sym, period |-> period, clock |-> clock], C_requireAuth(c),
           C_historyHandler(sym, period, clock, r), marketCache)

\* The error handling middleware that always sends err.message.
C_errorHandler_verbose ==
    Response("errorHandler", 500,
             [error |-> "Internal server error", message |-> ParseMessage], 0, "none")

\* The error handling middleware (lines 587-593).
C_errorHandler ==
    Response("errorHandler", 500,
             [error   |-> "Internal server error",
              message |-> IF env.NODE_ENV = development THEN ParseMessage
                          ELSE "Something went wrong"],
             0, "none")

\* A request whose body is not JSON: express.json() (line 76), in front of
\* the session, the limiters and every route, passes the error on.
C_malformedBody(c) ==
    /\ server = "C"
    /\ req' = Request("malformed body", c, "any", None)
    /\ resp' = C_errorHandler
    /\ UNCHANGED <<config, elsewhere, apiState, sessions, loginHits, history>>

----------------------------------------------------------------------------
(* Servers B and D, handler by handler.  A handler runs from one await to  *)
(* the next without interruption; while it waits for the provider, other   *)
(* handlers and the scheduled update run.  The data of a response is       *)
(* followed by where it came from (origin) and by the handler that fetched *)
(* or generated it (by).                                                   *)

CachedRoutes == {"/api/stocks", "/api/crypto"}

\* What the awaits of a handler end with: rows for at least one symbol, or
\* none for any.
FetchResults == {"rows", "none"}

\* stockData, etfData or cryptoData of handler t after its fetch and, where
\* nothing was fetched, its generation of demo data.
Fetched(t, result) ==
    [origin |-> IF result = "rows" THEN "upstream" ELSE "synthetic", by |-> t]

SourceOf(result) == IF result = "rows" THEN "live" ELSE "fallback"

\* marketCache after the writes of a request handler at instant `at`.
CacheUpdate(cache, route, data, t, at) ==
    IF route = "/api/stocks"
    THEN [cache EXCEPT !.stocks = data.origin, !.etfs = data.origin,
                       !.lastUpdated = at,
                       !.writer.stocks = t, !.writer.etfs = t]
    ELSE [cache EXCEPT !.crypto = data.origin, !.writer.crypto = t]

\* A body whose data and lastUpdated are read back from the cache as the
\* handler found it when it resumed.
CachedBody_stale(before, after, route, data, at, source) ==
    IF route = "/api/stocks"
    THEN [stocks |-> [origin |-> before.stocks, by |-> before.writer.stocks],
          etfs   |-> [origin |-> before.etfs, by |-> before.writer.etfs],
          lastUpdated |-> before.lastUpdated, dataSource |-> source]
    ELSE [crypto |-> [origin |-> before.crypto, by |-> before.writer.crypto],
          lastUpdated |-> at, dataSource |-> source]

\* The body of the response: the handler's own stockData, etfData or
\* cryptoData; lastUpdated is marketCache.lastUpdated, read after the
\* handler's write, in /api/stocks and a new Date() in /api/crypto.
CachedBody(before, after, route, data, at, source) ==
    IF route = "/api/stocks"
    THEN [stocks |-> data, etfs |-> data,
          lastUpdated |-> after.lastUpdated, dataSource |-> source]
    ELSE [crypto |-> data, lastUpdated |-> at, dataSource |-> source]

\* Every other handler that waits has now been overtaken by a write.
Overtaken(t) ==
    [u \in Tasks |->
        IF u = t THEN Idle
        ELSE IF inflight[u].pc = "awaiting" THEN [inflight[u] EXCEPT !.overlapped = TRUE]
        ELSE inflight[u]]

\* The handler of a request runs up to its first await.
HandlerBegin(t, route) ==
    /\ server \in CachingServers
    /\ t \in Requests
    /\ inflight[t].pc = "idle"
    /\ isTiingoConfigured
    /\ apiLimiter("ip1")
    /\ inflight' = [inflight EXCEPT ![t] =
                       [pc |-> "awaiting", route |-> route, overlapped |-> FALSE]]
    /\ UNCHANGED <<config, pages, sessions, loginHits, apiState, req, resp, history, now>>

\* The awaits of the handler are over: it runs to res.json().
HandlerFinish(t, result) ==
    /\ server \in CachingServers
    /\ t \in Requests
    /\ inflight[t].pc = "awaiting"
    /\ now < MaxNow
    /\ now' = now + 1
    /\ LET route == inflight[t].route
           data  == Fetched(t, result)
           after == CacheUpdate(marketCache, route, data, t, now')
       IN  /\ marketCache' = after
           /\ req' = Request(route, "c1", "ip1",
                             [task |-> t, at |-> now',
                              overlapped |-> inflight[t].overlapped])
           /\ resp' = Response("handler", 200,
                               CachedBody(marketCache, after, route, data, now',
                                          SourceOf(result)),
                               1, data.origin)
    /\ inflight' = Overtaken(t)
    /\ UNCHANGED <<config, pages, sessions, loginHits, apiHits, history>>

\* A request to a server without a token: the handler has no await and runs
\* from start to end.
HandlerRun(t, route) ==
    /\ server \in CachingServers
    /\ t \in Requests
    /\ inflight[t].pc = "idle"
    /\ ~isTiingoConfigured
    /\ apiLimiter("ip1")
    /\ now < MaxNow
    /\ now' = now + 1
    /\ LET data  == Fetched(t, "none")
           after == CacheUpdate(marketCache, route, data, t, now')
       IN  /\ marketCache' = after
           /\ req' = Request(route, "c1", "ip1",
                             [task |-> t, at |-> now', overlapped |-> FALSE])
           /\ resp' = Response("handler", 200,
                               CachedBody(marketCache, after, route, data, now',
                                          "fallback"),
                               0, data.origin)
    /\ UNCHANGED <<config, pages, sessions, loginHits, apiHits, history, inflight>>

\* cron.schedule('*/2 9-16 * * 1-5', ...) of server D fires.
ScheduleBegin ==
    /\ server = "D"
    /\ inflight["cron"].pc = "idle"
    /\ isTiingoConfigured
    /\ inflight' = [inflight EXCEPT !["cron"] =
                       [pc |-> "awaiting", route |-> "cron", overlapped |-> FALSE]]
    /\ UNCHANGED <<config, pages, sessions, loginHits, apiState, req, resp, history, now>>

\* Promise.all of the scheduled update is over: what was fetched replaces
\* what is cached, and lastUpdated is set in any case.
ScheduleFinish(stocks, etfs, crypto) ==
    /\ server = "D"
    /\ inflight["cron"].pc = "awaiting"
    /\ now < MaxNow
    /\ now' = now + 1
    /\ marketCache' =
          [marketCache EXCEPT
             !.stocks = IF stocks = "rows" THEN "upstream" ELSE @,
             !.etfs   = IF etfs = "rows" THEN "upstream" ELSE @,
             !.crypto = IF crypto = "rows" THEN "upstream" ELSE @,
             !.writer.stocks = IF stocks = "rows" THEN "cron" ELSE @,
             !.writer.etfs   = IF etfs = "rows" THEN "cron" ELSE @,
             !.writer.crypto = IF crypto = "rows" THEN "cron" ELSE @,
             !.lastUpdated = now']
    /\ inflight' = Overtaken("cron")
    /\ UNCHANGED <<config, pages, sessions, loginHits, apiHits, req, resp, history>>

----------------------------------------------------------------------------
(* The dashboard page: the watchlist and its real-time updates.            *)

\* realtimeUpdateCount is not counted beyond MaxUpdates.
MaxUpdates == 4

Entry(price, change, close) == [price |-> Num(price), change |-> Num(change), close |-> close]

\* The stocks of a response of GET /api/stocks, as the servers send them:
\* with the previous close (normalizeQuote), without it (server B), with a
\* null one, and none at all.
Watchlists ==
    {[AAPL |-> Entry(15000, 120, Num(14880)), MSFT |-> Entry(32000, -210, Num(32210))],
     [AAPL |-> Entry(18550, 230, Undef), MSFT |-> Entry(37890, 560, Undef)],
     [AAPL |-> Entry(15000, 15000, Null)],
     << >>}

\* The updates of a websocket message or a realtimeUpdate event.
UpdateSymbols == {Str("AAPL"), Str("MSFT"), Str("ZZZZ"), Str(""), Undef}
UpdatePrices  == {Num(15100), Num(14900), Num(0), Null, Undef}

\* renderWatchlist(stocks): this.watchlistData = { ...(stocks || {}) }
renderWatchlist(stocks) ==
    /\ watchlist' = [watchlist EXCEPT !.data = stocks, !.loaded = stocks,
                                      !.last = [sym \in DOMAIN stocks |-> Undef]]
    /\ UNCHANGED <<backend, chart, loginPage, browser>>

\* The previous close taken to be the price before the update.
prevCloseOf_lastPrice(data) == data.price

\* data.close ?? (data.price - data.change)
prevCloseOf(data) == Coalesce(data.close, Minus(data.price, data.change))

\* The entry after an update with a price.
Updated(data, price) ==
    LET prevClose == prevCloseOf(data)
    IN  [data EXCEPT !.price = price,
                     !.change = IF prevClose.k \in {"null", "undefined"} THEN @
                                ELSE Minus(price, prevClose)]

\* handleRealtimeUpdate(update)
handleRealtimeUpdate(symbol, price) ==
    /\ watchlist.realtimeUpdateCount < MaxUpdates
    /\ LET taken == /\ Truthy(symbol)
                    /\ price.k \notin {"null", "undefined"}
                    /\ symbol.s \in DOMAIN watchlist.data
       IN  watchlist' =
              [watchlist EXCEPT
                 !.realtimeUpdateCount = @ + 1,
                 !.updates = @ + 1,
                 !.data = IF taken
                          THEN [@ EXCEPT ![symbol.s] = Updated(@, price)]
                          ELSE @,
                 !.last = IF taken THEN [@ EXCEPT ![symbol.s] = price] ELSE @]
    /\ UNCHANGED <<backend, chart, loginPage, browser>>

----------------------------------------------------------------------------
(* The dashboard page: chart loads.  A load is in flight from the fetch of *)
(* loadChart until the history response (or its failure) arrives; the      *)
(* responses of different loads arrive in any order.                       *)

\* The page starts at most MaxLoads chart loads.
MaxLoads == 3

ChartSymbols == {"AAPL", "MSFT"}
ChartPeriods == {"1M", "1Y"}

\* loadChart(symbol, period) up to its await: the fetch is sent.
loadChart(c, symbol, period) ==
    [c EXCEPT !.loads = @ \cup {[id |-> c.issued + 1, symbol |-> symbol, period |-> period]},
              !.issued = @ + 1]

\* A load or a search can still be started.
Startable == chart.issued + Cardinality(chart.searches) < MaxLoads

\* selectStock(symbol)
selectStock(symbol) ==
    /\ Startable
    /\ chart' = loadChart([chart EXCEPT !.currentSymbol = symbol, !.symbolInput = symbol],
                           symbol, chart.currentPeriod)
    /\ UNCHANGED <<backend, watchlist, loginPage, browser>>

\* The change listener of the period select.
periodChange(period) ==
    /\ Startable
    /\ chart' = loadChart([chart EXCEPT !.currentPeriod = period], chart.currentSymbol, period)
    /\ UNCHANGED <<backend, watchlist, loginPage, browser>>

\* The change listener of the chart symbol select.
symbolChange(symbol) ==
    /\ Startable
    /\ chart' = loadChart([chart EXCEPT !.currentSymbol = symbol], symbol, chart.currentPeriod)
    /\ UNCHANGED <<backend, watchlist, loginPage, browser>>

\* The user types a symbol into the search field.
typeSymbol(symbol) ==
    /\ chart.symbolInput # symbol
    /\ chart' = [chart EXCEPT !.symbolInput = symbol]
    /\ UNCHANGED <<backend, watchlist, loginPage, browser>>

\* searchStock() up to its await: without a symbol in the search field
\* nothing is sent, otherwise the quote of the symbol is requested.
searchStock ==
    /\ Startable
    /\ chart.symbolInput # ""
    /\ chart.symbolInput \notin chart.searches
    /\ chart' = [chart EXCEPT !.searches = @ \cup {chart.symbolInput}]
    /\ UNCHANGED <<backend, watchlist, loginPage, browser>>

\* searchStock() after its await: a found symbol becomes current and its
\* chart is loaded; a failed search changes neither.
searchStockAnswered(symbol, ok) ==
    /\ symbol \in chart.searches
    /\ LET done == [chart EXCEPT !.searches = @ \ {symbol}]
       IN  chart' = IF ok
                    THEN loadChart([done EXCEPT !.currentSymbol = symbol],
                                   symbol, chart.currentPeriod)
                    ELSE done
    /\ UNCHANGED <<backend, watchlist, loginPage, browser>>

\* renderChart(data.data, symbol), or generateFallbackChart(symbol, period)
\* and its renderChart(mockData, symbol): the chart of the load is drawn.
drawn(c, load) == [symbol |-> load.symbol, period |-> load.period]

\* loadChart after its await: the history response of a load, or its
\* failure, arrives.
loadChartAnswered(load, ok) ==
    /\ load \in chart.loads
    /\ chart' = [chart EXCEPT !.loads = @ \ {load}, !.shown = drawn(chart, load)]
    /\ UNCHANGED <<backend, watchlist, loginPage, browser>>

----------------------------------------------------------------------------
(* The login page.  A disabled control takes no input and dispatches no    *)
(* click or keypress, so handleLogin runs only from a control that is      *)
(* enabled.                                                                *)

\* The page sends at most MaxAttempts login requests.
MaxAttempts == 2

FieldTexts == {<<>>, <<" ">>, <<"a">>}

\* How a login request ends: 200 {success: true}; 200 without success;
\* 401, 429 or 500 with a JSON body; a body that is no JSON; no response.
LoginOutcomes == {"success", "successFalse", "nonOk", "unparsable", "networkError"}

\* The user types into a field.
typeField(field, text) ==
    /\ loginPage.location = "/auth/login"
    /\ ~loginPage.disabled[field]
    /\ loginPage[field] # text
    /\ loginPage' = [loginPage EXCEPT ![field] = text]
    /\ UNCHANGED <<backend, watchlist, chart, browser>>

\* setFormState(disabled) that leaves the two fields as they are.
setFormState_buttonOnly(page, disabled) ==
    [page EXCEPT !.disabled.button = disabled]

\* setFormState(disabled)
setFormState(page, disabled) ==
    [page EXCEPT !.disabled = IF disabled THEN Disabled ELSE Enabled]

\* clearPasswordField()
clearPasswordField(page) == [page EXCEPT !.password = <<>>]

\* handleLogin() up to its await, run by a click on the button or by Enter
\* in a field: without a username or a password only a message is shown,
\* otherwise the form is disabled and the request is sent.
handleLogin(control) ==
    /\ loginPage.location = "/auth/login"
    /\ ~loginPage.disabled[control]
    /\ loginPage.sent < MaxAttempts
    /\ LET username == trim(loginPage.username)
           password == loginPage.password
       IN  loginPage' =
              IF username = <<>> \/ password = <<>>
              THEN [loginPage EXCEPT !.outcome = "required"]
              ELSE [setFormState(loginPage, TRUE) EXCEPT
                       !.inflight = @ + 1, !.sent = @ + 1, !.outcome = "sent"]
    /\ UNCHANGED <<backend, watchlist, chart, browser>>

\* handleLogin() after its await: the response, or its failure, arrives.
loginAnswered(outcome) ==
    /\ loginPage.inflight > 0
    /\ LET page == [loginPage EXCEPT !.inflight = @ - 1, !.outcome = outcome]
       IN  loginPage' =
              IF outcome = "success"
              THEN [page EXCEPT !.redirecting = TRUE]
              ELSE clearPasswordField(setFormState(page, FALSE))
    /\ UNCHANGED <<backend, watchlist, chart, browser>>

\* The timer of a successful login: window.location.href = '/'
loginRedirect ==
    /\ loginPage.redirecting
    /\ loginPage.location = "/auth/login"
    /\ loginPage' = [loginPage EXCEPT !.location = "/"]
    /\ UNCHANGED <<backend, watchlist, chart, browser>>

----------------------------------------------------------------------------
(* Authentication: two clients behind one address send login, status and   *)
(* logout requests; the login window and the sessions run out.             *)

Next ==
    \/ \E c \in Clients, u \in UsernameInputs, p \in PasswordInputs :
          \/ A_login(c, "ip1", u, p)
          \/ B_login(c, "ip1", u, p)
          \/ C_login(c, "ip1", u, p)
    \/ \E c \in Clients :
          \/ A_status(c) \/ A_logout(c)
          \/ B_status(c) \/ B_logout(c)
          \/ C_status(c) \/ C_logout(c)
          \/ SessionExpire(c)
    \/ LoginWindowReset("ip1")

\* The authentication routes do not read the token.
InitAuth == Init /\ env.TIINGO_API_KEY = undefined

Spec == InitAuth /\ [][Next]_vars

(* The login limiter: one client moving between two addresses.             *)

NextLimiter ==
    \/ \E ip \in Addrs, u \in UsernameInputs, p \in PasswordInputs :
          \/ A_login("c1", ip, u, p)
          \/ B_login("c1", ip, u, p)
          \/ C_login("c1", ip, u, p)
    \/ A_status("c1") \/ A_logout("c1")
    \/ B_status("c1") \/ B_logout("c1")
    \/ C_status("c1") \/ C_logout("c1")
    \/ SessionExpire("c1")
    \/ \E ip \in Addrs : LoginWindowReset(ip)

SpecLimiter == InitAuth /\ [][NextLimiter]_vars

----------------------------------------------------------------------------
(* Properties *)

----------------------------------------------------------------------------
(* Server A with its data routes: one client, token set or not.            *)

NextA ==
    \/ \E p \in {secret, <<"b","a","d">>} : A_login("c1", "ip1", admin, p)
    \/ A_status("c1")
    \/ A_logout("c1")
    \/ \E up \in Outcomes(A_TIINGO_API_KEY, IexPayloads(A_tickers)) : A_stocks("c1", up)
    \/ \E sym \in SymbolInputs :
         \E up \in Outcomes(A_TIINGO_API_KEY, IexPayloads(<<sym>>)) : A_quote("c1", sym, up)
    \/ \E sym \in SymbolInputs, clock \in NoonClocks :
         LET sent == A_historyParams("1M", clock)
         IN  \E up \in Outcomes(A_TIINGO_API_KEY,
                                HistoryPayloads(sent.startDate.n, sent.endDate.n)) :
               A_history("c1", sym, "1M", clock, up)
    \/ \E up \in Outcomes(A_TIINGO_API_KEY, CryptoPayloads(A_cryptoTickers)) : A_crypto("c1", up)
    \/ \E up \in Outcomes(A_TIINGO_API_KEY, FxPayloads(A_fxTickers)) : A_fx("c1", up)
    \/ \E up \in Outcomes(A_TIINGO_API_KEY, NewsPayloads) : A_news("c1", up)
    \/ \E up \in Outcomes(A_TIINGO_API_KEY, IexPayloads(A_tickers)) : A_proxyIex("c1", up)
    \/ \E route \in PageRoutes : A_page("c1", route)

\* The administrator's name is the default one and a hash is configured.
InitA ==
    /\ Init
    /\ server = "A"
    /\ env.ADMIN_USERNAME = undefined
    /\ env.ADMIN_PASSWORD_HASH # undefined

SpecA == InitA /\ [][NextA]_vars

----------------------------------------------------------------------------
(* Server B with its data routes: one client behind one address.           *)

\* The draws a handler uses when it generates data: none is made otherwise.
Draws(generated) == IF generated THEN Randoms ELSE {0}

NextB ==
    \/ B_status("c1")
    \/ \E how \in HowWorlds(Range(B_stockSymbols) \cup Range(B_etfSymbols)) :
         \E q \in QuoteInputs :
           LET ups == [sym \in DOMAIN how |-> IexGet(sym, how[sym], q)]
           IN  \E rp, rc \in Draws(~B_stocksLive(ups)) :
                 /\ B_stocksLive(ups) \/ q = <<"full", 14900>>
                 /\ B_stocks("c1", "ip1", ups, rp, rc)
    \/ \E sym \in SymbolInputs, how \in Hows, q \in QuoteInputs :
         LET up == IexGet(sym, how, q)
             generated == ~isTiingoConfigured \/ how # "rows"
         IN  \E rp, rc \in Draws(generated) :
               /\ ~generated \/ q = <<"full", 14900>>
               /\ B_quote("c1", "ip1", sym, up, rp, rc)
    \/ \E ups \in CryptoWorlds(Range(B_cryptoSymbols)) :
         \E rp, rc \in Draws(~B_cryptoLive(ups)) : B_crypto("c1", "ip1", ups, rp, rc)
    \/ \E ups \in NewsWorlds(Range(B_newsSymbols)) : B_news("c1", "ip1", ups)
    \/ ApiWindowReset("ip1")

InitB ==
    /\ Init
    /\ server = "B"
    /\ env.ADMIN_USERNAME = undefined
    /\ env.ADMIN_PASSWORD_HASH # undefined

SpecB == InitB /\ [][NextB]_vars

----------------------------------------------------------------------------
(* Server C with its data routes: one client behind one address.           *)

NextC ==
    \/ \E p \in {secret, <<"b","a","d">>} : C_login("c1", "ip1", admin, p)
    \/ C_status("c1")
    \/ C_logout("c1")
    \/ SessionExpire("c1")
    \/ LoginWindowReset("ip1")
    \/ \E test \in Outcomes(C_API_KEY, {ObjectData}), r \in Randoms :
         C_stocks("c1", "ip1", test, r)
    \/ \E r \in Randoms : C_crypto("c1", "ip1", r)
    \/ C_news("c1", "ip1")
    \/ \E sym \in SymbolInputs, d \in Randoms, r \in Randoms :
         /\ sym \notin DOMAIN mockStockData \/ d = 49
         /\ C_quote("c1", "ip1", sym, d, r)
    \/ ApiWindowReset("ip1")

InitC ==
    /\ Init
    /\ server = "C"
    /\ env.ADMIN_USERNAME = undefined
    /\ env.ADMIN_PASSWORD_HASH # undefined

SpecC == InitC /\ [][NextC]_vars

----------------------------------------------------------------------------
(* Server B's authentication routes alone: two clients behind one address. *)

NextBypass ==
    \/ \E c \in Clients, u \in UsernameInputs, p \in PasswordInputs :
         B_login(c, "ip1", u, p)
    \/ \E c \in Clients : B_status(c)
    \/ \E c \in Clients : B_logout(c)
    \/ LoginWindowReset("ip1")

InitBypass == InitAuth /\ server = "B"

SpecBypass == InitBypass /\ [][NextBypass]_vars

----------------------------------------------------------------------------
(* The history routes of the three servers: one client behind one address, *)
(* who logs in once; every period, every clock.                            *)

NextHistory ==
    \/ ~sessions["c1"].authenticated /\ A_login("c1", "ip1", admin, secret)
    \/ ~sessions["c1"].authenticated /\ C_login("c1", "ip1", admin, secret)
    \/ /\ server = "A"
       /\ \E period \in Periods, clock \in Clocks :
            LET sent == A_historyParams(period, clock)
            IN  \E up \in Outcomes(A_TIINGO_API_KEY,
                                   HistoryPayloads(sent.startDate.n, sent.endDate.n)) :
                  A_history("c1", "AAPL", period, clock, up)
    \/ /\ server = "B"
       /\ \E sym \in HistorySymbols, period \in Periods, clock \in Clocks :
            \E up \in Outcomes(B_TIINGO_API_KEY, B_historyPayloads(period, clock)) :
              \E r \in Draws(~B_historyLive(up)) :
                /\ isTiingoConfigured \/ up = UpNoResponse
                /\ sym = "AAPL" \/ (up = UpNoResponse /\ r = 49)
                /\ B_history("c1", "ip1", sym, period, clock, up, r, r)
    \/ /\ server = "C"
       /\ \E sym \in HistorySymbols, period \in Periods, clock \in Clocks, r \in Randoms :
            /\ sym = "AAPL" \/ r = 49
            /\ C_history("c1", "ip1", sym, period, clock, r)
    \/ ApiWindowReset("ip1")

InitHistory ==
    /\ Init
    /\ env.ADMIN_USERNAME = undefined
    /\ env.ADMIN_PASSWORD_HASH # undefined

SpecHistory == InitHistory /\ [][NextHistory]_vars

----------------------------------------------------------------------------
(* The first server's proxy, token and health routes: two clients, one of  *)
(* whom may log in.                                                        *)

NextProxy ==
    \/ \E p \in {secret, <<"b", "a", "d">>} : A_login("c1", "ip1", admin, p)
    \/ A_logout("c1")
    \/ \E c \in Clients, route \in ProxyRoutes :
         \E up \in ProxyOutcomes(route) : A_proxy(c, route, up)
    \/ \E c \in Clients : A_token(c)
    \/ \E c \in Clients :
         \E up \in Outcomes(A_TIINGO_API_KEY, {ObjectData}) : A_healthTiingo(c, up)
    \/ \E c \in Clients, route \in PageRoutes : A_page(c, route)

InitProxy ==
    /\ Init
    /\ server = "A"
    /\ env.ADMIN_USERNAME = undefined

SpecProxy == InitProxy /\ [][NextProxy]_vars

----------------------------------------------------------------------------
(* Sessions over time: two clients log in and out while the hours pass.    *)

NextSession ==
    \/ \E c \in Clients :
          /\ ~sessions[c].authenticated
          /\ \/ A_login(c, "ip1", admin, secret)
             \/ B_login(c, "ip1", admin, secret)
             \/ C_login(c, "ip1", admin, secret)
    \/ \E c \in Clients :
          \/ A_status(c) \/ A_logout(c)
          \/ B_status(c) \/ B_logout(c)
          \/ C_status(c) \/ C_logout(c)
    \/ LoginWindowReset("ip1")
    \/ Tick

InitSession ==
    /\ Init
    /\ env.ADMIN_USERNAME = undefined
    /\ env.ADMIN_PASSWORD_HASH # undefined
    /\ env.TIINGO_API_KEY = undefined

SpecSession == InitSession /\ [][NextSession]_vars

----------------------------------------------------------------------------
(* Servers A and C started without ADMIN_PASSWORD_HASH: two clients send    *)
(* every user name and password.  (Server B answers every login with       *)
(* success and every status request with authenticated: true, with or      *)
(* without a hash: see C3_OnlyLoginAuthenticates.)                         *)

NextUnset ==
    \/ \E c \in Clients, u \in UsernameInputs, p \in PasswordInputs :
          \/ A_login(c, "ip1", u, p)
          \/ C_login(c, "ip1", u, p)
    \/ \E c \in Clients :
          \/ A_status(c) \/ A_logout(c)
          \/ C_status(c) \/ C_logout(c)
    \/ LoginWindowReset("ip1")

InitUnset ==
    /\ Init
    /\ server \in {"A", "C"}
    /\ env.ADMIN_PASSWORD_HASH = undefined
    /\ env.TIINGO_API_KEY = undefined

SpecUnset == InitUnset /\ [][NextUnset]_vars

----------------------------------------------------------------------------
(* Errors: servers A and C in every mode, one client whose requests fail   *)
(* upstream or cannot be parsed.                                           *)

NextErrors ==
    \/ A_login("c1", "ip1", admin, secret)
    \/ C_login("c1", "ip1", admin, secret)
    \/ A_logout("c1") \/ C_logout("c1")
    \/ A_malformedBody("c1") \/ C_malformedBody("c1")
    \/ \E sym \in SymbolInputs :
         \E up \in Outcomes(A_TIINGO_API_KEY, IexPayloads(<<sym>>)) : A_quote("c1", sym, up)
    \/ \E up \in Outcomes(A_TIINGO_API_KEY, {ObjectData}) : A_healthTiingo("c1", up)
    \/ \E route \in ProxyRoutes :
         \E up \in ProxyOutcomes(route) : A_proxy("c1", route, up)
    \/ \E sym \in SymbolInputs, d \in Randoms, r \in Randoms :
         /\ sym \notin DOMAIN mockStockData \/ d = 49
         /\ C_quote("c1", "ip1", sym, d, r)
    \/ C_news("c1", "ip1")
    \/ LoginWindowReset("ip1")
    \/ ApiWindowReset("ip1")

InitErrors ==
    /\ Boot(NodeEnvs)
    /\ server \in {"A", "C"}
    /\ env.ADMIN_USERNAME = undefined
    /\ env.ADMIN_PASSWORD_HASH # undefined

SpecErrors == InitErrors /\ [][NextErrors]_vars

----------------------------------------------------------------------------
(* The cache of servers B and D: two requests and the scheduled update, in *)
(* every interleaving.                                                     *)

NextCache ==
    \/ \E t \in Requests, route \in CachedRoutes :
          \/ HandlerBegin(t, route)
          \/ HandlerRun(t, route)
    \/ \E t \in Requests, result \in FetchResults : HandlerFinish(t, result)
    \/ ScheduleBegin
    \/ \E stocks, etfs, crypto \in FetchResults : ScheduleFinish(stocks, etfs, crypto)

InitCache ==
    /\ Start(CachingServers, {production})
    /\ env.ADMIN_USERNAME = undefined
    /\ env.ADMIN_PASSWORD_HASH # undefined

SpecCache == InitCache /\ [][NextCache]_vars

----------------------------------------------------------------------------
(* fetchTiingoNews of server B on what the provider may send: for each     *)
(* symbol no answer, no array, or one of a few lists of articles, among    *)
(* them lists that share a title, lists out of order and lists longer than *)
(* the limit that was asked for.                                           *)

Digits == <<"1", "2", "3", "4", "5", "6", "7", "8">>

\* The length of a list of the provider's that disregards limit: 5.
LongList == 8

NewsItem(title, date) ==
    [title |-> Str(title), source |-> Str("wire"), url |-> Str("https://n/" \o title),
     publishedDate |-> Str(PublishedDates[date]), description |-> Str("on " \o title)]

\* The date the provider gives the shared article in its answer for a symbol.
SharedDate(sym) == IF sym = "AAPL" THEN 1 ELSE IF sym = "MSFT" THEN 3 ELSE 2

NewsLists(sym) ==
    {<<>>,
     <<NewsItem("shared", SharedDate(sym)), NewsItem("own " \o sym, 2)>>,
     <<NewsItem("own " \o sym, 3), NewsItem("shared", SharedDate(sym)),
       NewsItem("own " \o sym, 1)>>,
     [i \in 1..LongList |-> NewsItem(sym \o " " \o Digits[i], (i % 3) + 1)]}

NewsAnswers(sym) ==
    {UpNoResponse, UpOk(ObjectData)}
    \cup {UpOk(Rows(list)) : list \in NewsLists(sym)}

NewsInputs == {ups \in [Range(B_newsSymbols) -> UNION {NewsAnswers(sym) : sym \in Range(B_newsSymbols)}] :
                  \A sym \in Range(B_newsSymbols) : ups[sym] \in NewsAnswers(sym)}

NextNews == \E ups \in NewsInputs : FetchNews(ups)

InitNews ==
    /\ Init
    /\ server = "B"
    /\ env.ADMIN_USERNAME = undefined
    /\ env.ADMIN_PASSWORD_HASH # undefined
    /\ env.TIINGO_API_KEY = key

SpecNews == InitNews /\ [][NextNews]_vars

----------------------------------------------------------------------------
(* The dashboard page between reloads of the watchlist.                    *)

NextWatchlist ==
    \/ \E stocks \in Watchlists :
          /\ watchlist.realtimeUpdateCount < MaxUpdates
          /\ renderWatchlist(stocks)
    \/ \E symbol \in UpdateSymbols, price \in UpdatePrices :
          handleRealtimeUpdate(symbol, price)

InitPage ==
    /\ Init
    /\ server = "A"
    /\ env.ADMIN_USERNAME = undefined
    /\ env.ADMIN_PASSWORD_HASH # undefined
    /\ env.TIINGO_API_KEY = key

SpecWatchlist == InitPage /\ [][NextWatchlist]_vars

NextChart ==
    \/ \E symbol \in ChartSymbols : selectStock(symbol)
    \/ \E period \in ChartPeriods : periodChange(period)
    \/ \E symbol \in ChartSymbols : symbolChange(symbol)
    \/ \E symbol \in ChartSymbols : typeSymbol(symbol)
    \/ searchStock
    \/ \E symbol \in ChartSymbols, ok \in BOOLEAN : searchStockAnswered(symbol, ok)
    \/ \E load \in chart.loads, ok \in BOOLEAN : loadChartAnswered(load, ok)

SpecChart == InitPage /\ [][NextChart]_vars

NextLoginPage ==
    \/ \E field \in {"username", "password"}, text \in FieldTexts : typeField(field, text)
    \/ \E control \in {"button", "username", "password"} : handleLogin(control)
    \/ \E outcome \in LoginOutcomes : loginAnswered(outcome)
    \/ loginRedirect

SpecLoginPage == InitPage /\ [][NextLoginPage]_vars

----------------------------------------------------------------------------
(* Server A and a browser that follows its redirects.  The session of the  *)
(* browser changes between two navigations, by a login from another tab,   *)
(* and not between a redirect and the request that follows it.             *)

\* A browser follows no more than MaxHops redirects.
MaxHops == 5

Starts == {"/", "/auth/login", "logout"}

\* The user opens a page, or submits the logout form.
navigate(c, start) ==
    /\ browser.request = "none"
    /\ browser' = [client |-> c, start |-> start,
                   wasAuthenticated |-> sessions[c].authenticated,
                   request |-> start, hops |-> 0, landed |-> "none"]
    /\ UNCHANGED <<backend, watchlist, chart, loginPage>>

\* Server A answers the request that the browser sends next.
A_serve ==
    /\ browser.request # "none"
    /\ browser.hops < MaxHops
    /\ \/ browser.request = "/" /\ A_page(browser.client, "/")
       \/ browser.request = "/auth/login" /\ A_loginPage(browser.client)
       \/ browser.request = "logout" /\ A_logout(browser.client)

NextRedirects ==
    \/ \E c \in Clients, p \in {secret, <<>>} :
          browser.request = "none" /\ A_login(c, "ip1", admin, p)
    \/ \E c \in Clients, start \in Starts : navigate(c, start)
    \/ A_serve

\* Server A answers every request.
SpecRedirects == InitPage /\ [][NextRedirects]_vars /\ WF_vars(A_serve)

Authenticating == server \in {"A", "C"}

\* C1 as stated: on the authenticating servers, a status request of a session
\* whose most recent login/logout event is a login with the configured user
\* name and a verifying password answers authenticated: true, and one whose
\* most recent event is a logout answers authenticated: false.
C1_LoginThenStatus ==
    (Authenticating /\ req.route = "status") =>
        LET e == lastAuth[req.client] IN
        /\ (e.event = "login" /\ e.raw) => resp.body.authenticated
        /\ e.event = "logout" => ~resp.body.authenticated

\* C1 as amended: the same, for a login whose user name equals the configured
\* one after the server's input sanitization and which the login limiter did
\* not reject, as long as the session has neither been logged out nor expired.
C1_AcceptedLoginThenStatus ==
    (Authenticating /\ req.route = "status") =>
        LET e == lastAuth[req.client] IN
        /\ (e.event = "login" /\ e.sanitized /\ ~e.limited) => resp.body.authenticated
        /\ e.event = "logout" => ~resp.body.authenticated

\* C1 witness: a status request answered authenticated: true after an accepted
\* login, while the other client, logged out, is anonymous.
C1_Witness ==
    /\ Authenticating
    /\ req.route = "status"
    /\ lastAuth[req.client].event = "login"
    /\ lastAuth[req.client].sanitized
    /\ resp.body.authenticated
    /\ \E c \in Clients : lastAuth[c].event = "logout" /\ ~sessions[c].authenticated

\* C3 as stated: a session becomes authenticated only by a login request of
\* that client with the configured user name and a verifying password; a
\* login with a wrong user name or password answers 401 and changes no
\* session.
C3_OnlyLoginAuthenticates ==
    [][/\ \A c \in Clients :
            (~sessions[c].authenticated /\ sessions'[c].authenticated) =>
                /\ req'.route = "login" /\ req'.client = c
                /\ req'.facts.usernameOk /\ req'.facts.passwordOk
       /\ (req'.route = "login" /\ ~(req'.facts.usernameOk /\ req'.facts.passwordOk)) =>
                (resp'.status = 401 /\ sessions' = sessions)]_vars

\* C4 as stated: where a login limiter is defined, the sixth and later login
\* requests of an address within a window are answered 429, and the first
\* five are not, whatever the other address has sent.
C4_SixthLoginRejected ==
    (server \in {"B", "C"} /\ req.route = "login") =>
        (resp.status = 429 <=> req.facts.attempt > LOGIN_MAX)

----------------------------------------------------------------------------
(* Properties of the data routes *)

ApiRoutes ==
    {"/api/stocks", "/api/stocks/:symbol", "/api/stocks/:symbol/history",
     "/api/crypto", "/api/fx", "/api/news", "/api/tiingo/iex"}

\* The routes that serve normalized market data.
DataRoutes == ApiRoutes \ {"/api/tiingo/iex"}

\* The dataSource tag of a body, "none" for a body without one.
DataSourceOf(body) == IF "dataSource" \in DOMAIN body THEN body.dataSource ELSE "none"

\* C2: the handler of an /api route runs only for a request whose session is
\* authenticated, and a request of an anonymous session is answered 401 by
\* requireAuth before any handler or upstream call runs.
C2_AnonymousRejected ==
    req.route \in ApiRoutes =>
        /\ resp.by = "handler" => req.authenticated
        /\ ~req.authenticated =>
              resp.by = "requireAuth" /\ resp.status = 401 /\ resp.calls = 0

\* C5: with no token in the environment, a data route answers an
\* authenticated request 200 with a body tagged demo or fallback.
C5_NoTokenDemo ==
    (env.TIINGO_API_KEY = undefined /\ req.route \in DataRoutes /\ req.authenticated) =>
        resp.status = 200 /\ DataSourceOf(resp.body) \in {"demo", "fallback"}

\* C6: with a token in the environment, a data route whose upstream call
\* fails (no response, an error status, an empty or malformed payload)
\* answers an authenticated request 200 with a body tagged demo or fallback.
C6_FailureBecomesDemo ==
    (/\ env.TIINGO_API_KEY # undefined
     /\ req.route \in DataRoutes
     /\ req.authenticated
     /\ "up" \in DOMAIN req.facts
     /\ req.facts.up # "rows") =>
        resp.status = 200 /\ DataSourceOf(resp.body) \in {"demo", "fallback"}

\* The fields of the demo or mock record of a resource type in a server.
DemoFields(type) ==
    IF server = "A"
    THEN CASE type = "stock"   -> JsonFields(DEMO_STOCKS.AAPL)
           [] type = "etf"     -> JsonFields(DEMO_ETFS.SPY)
           [] type = "crypto"  -> JsonFields(DEMO_CRYPTO.BTC)
           [] type = "fx"      -> JsonFields(DEMO_FX.EURUSD)
           [] OTHER            -> JsonFields(DEMO_NEWS[1])
    ELSE CASE type = "stock"   -> JsonFields(generateMockStockData(0, 0).AAPL)
           [] type = "etf"     -> JsonFields(generateMockETFData(0, 0).SPY)
           [] type = "crypto"  -> JsonFields(generateMockCryptoData(0, 0).btcusd)
           [] OTHER            -> JsonFields(B_demoNews[1])

TypeOfSymbol(sym) ==
    IF sym \in (IF server = "A" THEN A_etfSymbols ELSE DOMAIN baseETFs)
    THEN "etf" ELSE "stock"

\* The records of a response, each with its resource type.
Typed(type, map) == {<<type, map[x]>> : x \in DOMAIN map}

RecordsOf(rq, rs) ==
    CASE rq.route = "/api/stocks/:symbol" -> {<<TypeOfSymbol(rq.facts.symbol), rs.body>>}
      [] rq.route = "/api/stocks" -> Typed("stock", rs.body.stocks) \cup Typed("etf", rs.body.etfs)
      [] rq.route = "/api/crypto" -> Typed("crypto", rs.body.crypto)
      [] rq.route = "/api/fx"     -> Typed("fx", rs.body.fx)
      [] rq.route = "/api/news"   -> Typed("article", rs.body.articles)
      [] OTHER -> {}

\* C7: a record built from an upstream response has the fields of the demo
\* record of its resource type.
C7_SameFields ==
    (server \in {"A", "B"} /\ resp.origin = "upstream") =>
        \A r \in RecordsOf(req, resp) : JsonFields(r[2]) = DemoFields(r[1])

\* C8: the body of a quote lookup answered 200 has symbol, price, change,
\* changePercent and volume.
C8_RequiredFields ==
    (req.route = "/api/stocks/:symbol" /\ resp.by = "handler" /\ resp.status = 200) =>
        {"symbol", "price", "change", "changePercent", "volume"} \subseteq JsonFields(resp.body)

\* The quote records of a response.
QuotesOf(rq, rs) ==
    IF rs.by # "handler" \/ rs.status # 200 THEN {}
    ELSE CASE rq.route = "/api/stocks/:symbol" -> {rs.body}
           [] rq.route = "/api/stocks" ->
                {rs.body.stocks[x] : x \in DOMAIN rs.body.stocks}
                \cup {rs.body.etfs[x] : x \in DOMAIN rs.body.etfs}
           [] OTHER -> {}

\* changePercent is change / (price - change) * 100, to a hundredth of a percent.
PercentDerived(q) ==
    LET price  == Get(q, "price")
        change == Get(q, "change")
        pct    == Get(q, "changePercent")
    IN  /\ price.k = "number" /\ change.k = "number" /\ pct.k \in {"number", "fixed"}
        /\ price.n # change.n
        /\ Abs(pct.n - RoundDiv(change.n * 10000, price.n - change.n)) <= 1

\* C9: in every quote record a server returns, changePercent is
\* change / (price - change) * 100 within the rounding tolerance.
C9_PercentDerived == \A q \in QuotesOf(req, resp) : PercentDerived(q)

\* C10: a response tagged live or tiingo has its values from an upstream
\* response of the same request, and a tagged response whose values were
\* synthesized is tagged fallback or demo.
C10_TagTellsOrigin ==
    LET tag == DataSourceOf(resp.body)
    IN  /\ tag \in {"live", "tiingo"} => resp.origin = "upstream"
        /\ (tag # "none" /\ resp.origin = "synthetic") => tag \in {"fallback", "demo"}

----------------------------------------------------------------------------
(* Properties of the first server's gate, proxy and error responses *)

\* C11: in the first server, requireAuth answers an anonymous request for a
\* route under /api with the JSON 401 {error: 'Authentication required'}, and
\* an anonymous request for a page with a redirect to /auth/login.
C11_RejectedByKind ==
    (server = "A" /\ ~req.authenticated) =>
        /\ req.route \in ApiRoutes => resp = A_denied("401")
        /\ req.route \in PageRoutes => resp = A_denied("redirect")


\* C12: with a token configured, a data request that reaches its handler
\* issues exactly one upstream GET, whether the call succeeds or fails and
\* whatever the requests before it did.
C12_OneUpstreamGet ==
    (env.TIINGO_API_KEY = key /\ req.route \in DataRoutes /\ resp.by = "handler") =>
        resp.calls = 1


----------------------------------------------------------------------------
(* Properties of the history routes *)

HistoryRoute == "/api/stocks/:symbol/history"

\* A history request that its handler answered 200.
HistoryAnswered ==
    req.route = HistoryRoute /\ resp.by = "handler" /\ resp.status = 200

\* The rows of the series in the body of a history response: the first server
\* passes the provider's payload on as `data`.
SeriesOf(body) ==
    IF server = "A" THEN body.data.rows ELSE body.data

\* The days the points of a series are dated, in the order of the series.
DatesOf(series) == [i \in DOMAIN series |-> series[i].date.n]

NonDecreasing(dates) == \A i \in 1..(Len(dates) - 1) : dates[i] <= dates[i + 1]

\* "Approximately 30 points": from the 20 trading days of a short month to
\* the 31 days from 30 days ago to today.
AboutThirty(n) == n \in 20..31

NominalDays(period) ==
    CASE period = "1W" -> 7
      [] period = "1M" -> 30
      [] period = "3M" -> 90
      [] period = "1Y" -> 365

WindowOk(period, n) ==
    \/ Abs(n - NominalDays(period)) <= 1
    \/ period = "1M" /\ n \in 28..31

\* C14: for each of the periods 1W, 1M, 3M and 1Y the history route asks the
\* provider for, or generates, the window the period names, ending today: the
\* start date of its upstream GET, and the first date of a generated series,
\* lie that many days before the current date.
C14_WindowOfPeriod ==
    (req.route = HistoryRoute /\ resp.by = "handler" /\ req.facts.period \in Periods) =>
        LET today == toISODate(req.facts.clock.now).n IN
        /\ resp.sent # None =>
              WindowOk(req.facts.period, today - resp.sent.startDate.n)
        /\ (resp.status = 200 /\ resp.origin = "synthetic") =>
              LET dates == DatesOf(SeriesOf(resp.body)) IN
              /\ dates[Len(dates)] = today
              /\ WindowOk(req.facts.period, today - dates[1])


----------------------------------------------------------------------------
(* Properties of the error responses *)

RateLimiters == {"loginLimiter", "apiLimiter"}

\* A quote request for a symbol that no table of the server holds and for
\* which the provider, if asked, returned no row.
UnknownSymbol ==
    /\ req.route = "/api/stocks/:symbol"
    /\ req.facts.symbol = "ZZZZ"
    /\ "up" \in DOMAIN req.facts => req.facts.up # "rows"

\* C15: leaving aside the answers of the rate limiters, every error response
\* has a body {error: string}, and the status follows the failure: 400 for a
\* login without user name or password, 401 for a login with wrong
\* credentials and for a request of an anonymous session to a protected
\* route, 404 for a quote request for an unknown symbol, 500 for an upstream
\* failure that the handler answers with an error.
C15_ErrorTaxonomy ==
    resp.by \notin RateLimiters =>
        /\ resp.status >= 400 => DOMAIN resp.body = {"error"}
        /\ (req.route = "login" /\ req.facts.missing) => resp.status = 400
        /\ (req.route = "login" /\ ~req.facts.missing
              /\ ~(req.facts.usernameOk /\ req.facts.passwordOk)) => resp.status = 401
        /\ (req.route \in ApiRoutes /\ ~req.authenticated) => resp.status = 401
        /\ (UnknownSymbol /\ req.authenticated) => resp.status = 404
        /\ (resp.by = "handler" /\ resp.status >= 400 /\ "up" \in DOMAIN req.facts
              /\ req.facts.up \in {"status", "noResponse"}) => resp.status = 500


----------------------------------------------------------------------------
(* Properties of the first server's proxy routes *)

\* C16: a proxy route under /api/tiingo answers with the provider's payload
\* unchanged when the GET succeeds, with the provider's status and the
\* provider's error body when the provider answers an error status with a
\* body, and with 500 {error: message} when there is no response.
C16_ProxyPassThrough ==
    (req.route \in ProxyRoutes /\ resp.by = "handler") =>
        LET up == req.facts.outcome IN
        /\ up.k = "ok" => resp.status = 200 /\ resp.body = up.data
        /\ up.k = "status" =>
              /\ resp.status = up.code
              /\ up.data.k # "none" => resp.body = up.data
        /\ up.k = "noResponse" =>
              resp.status = 500 /\ resp.body = [error |-> ErrMessage(up)]

\* C16 witness: a proxy route that answered 404 with the provider's error body.
C16_Witness ==
    /\ req.route \in ProxyRoutes
    /\ resp.by = "handler"
    /\ req.facts.outcome = UpError(404, ErrorDetail)
    /\ resp.status = 404
    /\ resp.body = ErrorDetail


----------------------------------------------------------------------------
(* Properties of sessions over time *)

C18_NoLoginWithoutHash ==
    env.ADMIN_PASSWORD_HASH = undefined =>
       /\ \A c \in Clients : ~sessions[c].authenticated
       /\ req.route = "login" => resp.status # 200
       /\ req.route = "status" => resp.body = [authenticated |-> FALSE]

\* A login request that names the administrator and carries a password has
\* been answered by the login handler of a server without a hash.
C18_Witness ==
    /\ env.ADMIN_PASSWORD_HASH = undefined
    /\ req.route = "login"
    /\ req.facts.usernameOk
    /\ ~req.facts.missing
    /\ resp.by = "handler"


\* The response carries the upstream token: GET /api/tiingo/token is the one
\* handler that puts tiingoToken into a body, in the field `token`.
CarriesToken(body) ==
    /\ "token" \in DOMAIN body
    /\ body.token = tiingoToken

\* C19: the upstream token is sent to authenticated sessions only: a body
\* that carries it answers GET /api/tiingo/token of a session that was
\* authenticated when the request arrived, and no answer to an anonymous
\* session, on any route, carries it.
C19_TokenToAuthenticated ==
    CarriesToken(resp.body) =>
       /\ req.route = "/api/tiingo/token"
       /\ req.authenticated

\* An anonymous session has asked a server that holds a token for it, and
\* was turned away by requireAuth.
C19_Witness ==
    /\ req.route = "/api/tiingo/token"
    /\ ~req.authenticated
    /\ resp.by = "requireAuth"
    /\ tiingoToken = key


----------------------------------------------------------------------------
(* Properties of error responses *)

\* The message texts of the errors a handler may catch.
InternalMessages ==
    {ErrMessage(up) : up \in UpFailures} \cup {ParseMessage}

\* The server runs in development mode.
DevelopmentMode ==
    IF server = "A" THEN A_NODE_ENV = development ELSE env.NODE_ENV = development

\* The body carries the message of a caught error, in `error` or `message`.
DisclosesMessage(body) ==
    \E f \in DOMAIN body \cap {"error", "message"} : body[f] \in InternalMessages

\* C20: outside development mode no 500 response carries the message text of
\* the caught exception or upstream error.
C20_MessageRedacted ==
    (~DevelopmentMode /\ resp.status = 500) => ~DisclosesMessage(resp.body)


----------------------------------------------------------------------------
(* Properties of the cache *)

----------------------------------------------------------------------------
(* Properties of the fetch-then-fallback routes of server B *)

FallbackRoutes == {"/api/stocks", "/api/crypto", "/api/news"}

Values(f) == {f[x] : x \in DOMAIN f}

\* Every record the generators of server B can produce.
GeneratedRecords ==
    UNION {Values(generateMockStockData(rp, rc)) \cup Values(generateMockETFData(rp, rc))
           \cup Values(generateMockCryptoData(rp, rc)) : rp \in Randoms \cup {0},
                                                         rc \in Randoms \cup {0}}
    \cup Values(B_demoNews)

\* The records of the body of a fetch-then-fallback route.
BodyRecords(route, body) ==
    CASE route = "/api/stocks" -> Values(body.stocks) \cup Values(body.etfs)
      [] route = "/api/crypto" -> Values(body.crypto)
      [] OTHER                 -> Values(body.articles)

\* C22: a response of the watchlist, crypto or news route is of one source:
\* tagged 'live' with no generated record in it, or tagged 'fallback' with
\* generated records only, also when the provider answered for some of the
\* symbols only.
C22_OneSource ==
    (req.route \in FallbackRoutes /\ resp.by = "handler" /\ resp.status = 200) =>
       LET records == BodyRecords(req.route, resp.body)
       IN  \/ /\ resp.body.dataSource = "live"
              /\ resp.origin = "upstream"
              /\ records # {}
              /\ records \cap GeneratedRecords = {}
           \/ /\ resp.body.dataSource = "fallback"
              /\ resp.origin = "synthetic"
              /\ records # {}
              /\ records \subseteq GeneratedRecords

\* The watchlist was answered after the provider gave quotes for some of the
\* stock symbols and none for the others.
C22_Witness ==
    /\ req.route = "/api/stocks"
    /\ resp.by = "handler"
    /\ resp.body.dataSource = "live"
    /\ DOMAIN resp.body.stocks # {}
    /\ DOMAIN resp.body.stocks # Range(B_stockSymbols)


\* The symbols of a list for which the provider answered with rows.
Answered(symbols, classes) == {sym \in Range(symbols) : classes[sym] = "rows"}

----------------------------------------------------------------------------
(* Properties of fetchTiingoNews *)

RECURSIVE Fetched_articles(_, _)
\* The articles of the answers that are arrays, in the order of the symbols.
Fetched_articles(symbols, ups) ==
    IF symbols = <<>> THEN <<>>
    ELSE (IF ups[Head(symbols)].k = "ok" /\ ups[Head(symbols)].data.k = "array"
          THEN ups[Head(symbols)].data.rows ELSE <<>>)
         \o Fetched_articles(Tail(symbols), ups)

\* The first of the fetched articles that has the title.
FirstOfTitle(fetched, title) ==
    fetched[CHOOSE i \in 1..Len(fetched) :
               /\ fetched[i].title = title
               /\ \A j \in 1..(i - 1) : fetched[j].title # title]

\* C24: fetchTiingoNews returns at most 20 articles, of pairwise distinct
\* titles, each of them the first fetched article of its title, the newest
\* first; no article older than a returned one is left out for a newer one,
\* and the articles of the symbols that were answered for are there when the
\* fetch for another symbol failed.
C24_NewsDedupSorted ==
    req.route = "fetchTiingoNews" =>
       LET out     == resp.body.articles
           fetched == Fetched_articles(B_newsSymbols, req.facts.ups)
           titles  == {fetched[i].title : i \in 1..Len(fetched)}
       IN  /\ Len(out) <= NEWS_MAX
           /\ \A i, j \in 1..Len(out) : i # j => out[i].title # out[j].title
           /\ \A i \in 1..Len(out) :
                 /\ out[i].title \in titles
                 /\ out[i].publishedAt = FirstOfTitle(fetched, out[i].title).publishedDate
                 /\ out[i].url = FirstOfTitle(fetched, out[i].title).url
           /\ \A i, j \in 1..Len(out) :
                 i < j => DateValue(out[i].publishedAt) >= DateValue(out[j].publishedAt)
           /\ Len(out) = (IF Cardinality(titles) < NEWS_MAX THEN Cardinality(titles)
                          ELSE NEWS_MAX)
           /\ \A t \in titles :
                 (\A i \in 1..Len(out) : out[i].title # t) =>
                    \A i \in 1..Len(out) :
                       DateValue(out[i].publishedAt)
                          >= DateValue(FirstOfTitle(fetched, t).publishedDate)

\* The fetch for one symbol failed, the answers for the others share a
\* title under different dates and come out of order.
C24_Witness ==
    /\ req.route = "fetchTiingoNews"
    /\ req.facts.ups["AAPL"].k # "ok"
    /\ Len(resp.body.articles) = 3
    /\ \E i \in 1..3 : resp.body.articles[i].title = Str("shared")

\* More than 20 articles of distinct titles were fetched.
C24_Sliced ==
    /\ req.route = "fetchTiingoNews"
    /\ Len(Fetched_articles(B_newsSymbols, req.facts.ups)) > NEWS_MAX
    /\ Len(resp.body.articles) = NEWS_MAX


----------------------------------------------------------------------------
(* Properties of the dashboard page *)

\* The previous close of an entry as the watchlist was rendered.
PrevCloseAtLoad(sym) ==
    LET e == watchlist.loaded[sym]
    IN  IF e.close.k \in {"null", "undefined"} THEN Minus(e.price, e.change) ELSE e.close

\* C25: between two reloads of the watchlist, an entry that took an update
\* has the price of the last one and, as its change, that price less the
\* previous close it was loaded with; an entry that took none is as it was
\* loaded; the entries are those that were loaded; realtimeUpdateCount
\* counts every update.
C25_PrevCloseFixed ==
    /\ DOMAIN watchlist.data = DOMAIN watchlist.loaded
    /\ \A sym \in DOMAIN watchlist.data :
          IF watchlist.last[sym] = Undef
          THEN watchlist.data[sym] = watchlist.loaded[sym]
          ELSE watchlist.data[sym] =
                  [watchlist.loaded[sym] EXCEPT
                      !.price = watchlist.last[sym],
                      !.change = Minus(watchlist.last[sym], PrevCloseAtLoad(sym))]
    /\ watchlist.realtimeUpdateCount = watchlist.updates

\* An entry without a close has taken at least two updates, the last at a
\* price other than the one it was loaded with, and an update that no entry
\* takes has come in.
C25_Witness ==
    /\ watchlist.realtimeUpdateCount = MaxUpdates
    /\ "AAPL" \in DOMAIN watchlist.data
    /\ watchlist.loaded["AAPL"].close = Undef
    /\ watchlist.last["AAPL"] = Num(14900)
    /\ watchlist.data["AAPL"].change = Num(14900 - 18320)


\* Every chart load and every search that was started has been answered.
ChartSettled == chart.issued > 0 /\ chart.loads = {} /\ chart.searches = {}

\* C26: once every history response has arrived, the chart that is shown is
\* the one of the current symbol and the current period.
C26_LatestChartShown ==
    ChartSettled =>
        chart.shown = [symbol |-> chart.currentSymbol, period |-> chart.currentPeriod]


----------------------------------------------------------------------------
(* Properties of the login page *)

\* handleLogin would send nothing: the username or the password is empty.
Incomplete == trim(loginPage.username) = <<>> \/ loginPage.password = <<>>

\* C27: with an empty username or password no login request is sent; while
\* a request is in flight the button and both fields are disabled and no
\* second request is in flight; when a request fails the form is enabled
\* again and the password is cleared; when it succeeds the form stays
\* disabled and the page goes to "/", which it does after a success only.
C27_LoginForm ==
    /\ [](loginPage.inflight <= 1)
    /\ [](loginPage.inflight = 1 => loginPage.disabled = Disabled)
    /\ [](loginPage.redirecting => loginPage.disabled = Disabled)
    /\ [](loginPage.location = "/" => loginPage.redirecting)
    /\ [][/\ Incomplete => loginPage'.sent = loginPage.sent
          /\ loginPage'.inflight < loginPage.inflight =>
                IF loginPage'.outcome = "success"
                THEN loginPage'.redirecting /\ loginPage'.disabled = Disabled
                ELSE /\ loginPage'.disabled = Enabled
                     /\ loginPage'.password = <<>>
                     /\ ~loginPage'.redirecting]_vars

\* A second request has failed on a body that is no JSON, after a first one
\* that failed too: the form is enabled again.
C27_Witness ==
    /\ loginPage.sent = MaxAttempts
    /\ loginPage.outcome = "unparsable"
    /\ loginPage.inflight = 0

\* A login has succeeded and the page has gone to "/".
C27_Redirected == loginPage.location = "/" /\ loginPage.sent = MaxAttempts


----------------------------------------------------------------------------
(* Properties of a browser that follows the redirects of server A *)

\* Where a navigation ends: at the login page after a logout and for a
\* session that was anonymous, at the dashboard for one that was
\* authenticated.
Destination ==
    IF browser.start = "logout" \/ ~browser.wasAuthenticated THEN "login" ELSE "dashboard"

\* C28: from GET /, GET /auth/login and POST /auth/logout, with a session
\* that is anonymous or authenticated, a browser follows at most one
\* redirect of server A and then gets a response that is no redirect: the
\* login page when its session is anonymous by then (it was anonymous, or
\* it has logged out), the dashboard when it is authenticated.
C28_NoRedirectLoop ==
    /\ [](browser.hops <= 1)
    /\ [](browser.landed # "none" => browser.landed = Destination)
    /\ (browser.request # "none") ~> (browser.request = "none" /\ browser.landed = Destination)

\* An authenticated browser that asked for the login page has followed the
\* redirect to / and landed on the dashboard.
C28_Witness ==
    /\ browser.start = "/auth/login"
    /\ browser.wasAuthenticated
    /\ browser.hops = 1
    /\ browser.landed = "dashboard"

\* An authenticated browser has logged out and landed on the login page.
C28_LoggedOut ==
    /\ browser.start = "logout"
    /\ browser.wasAuthenticated
    /\ browser.hops = 1
    /\ browser.landed = "login"

====
